---- MODULE Spec2Model ----
(***************************************************************************)
(* Model of the Shard speculative generation engine:                       *)
(*   - cooperative_generate (desktop/python/inference.py)                  *)
(*   - GoldenTicketGenerator and its ledger (desktop/python/golden_ticket) *)
(*   - BitNetRuntime on the shard ABI (desktop/python/bitnet)              *)
(*   - _local_generate / _verify_draft (desktop/python/oracle_api.py)      *)
(* Wall-clock time is counted in hours (the unit of ban_duration_hours).   *)
(***************************************************************************)
EXTENDS Integers, Sequences, FiniteSets, TLC

\* ---------------------------------------------------------------- bounds
MaxTokens == 3
MaxDraft == 2
ClockTicks == 2
TickHours == 12
\* the longest cache of a runtime driven on its own
MaxCache == 2
MaxOps == 3
MaxClockSteps == 5
ClockStepMs == 25
\* calls of RateLimiter.check, and the last window the clock reaches
MaxChecks == 4
MaxWindow == 1

\* ------------------------------------------------------ program constants
DEFAULT_REPUTATION_THRESHOLD_PCT == 70
DEFAULT_MIN_ATTEMPTS_BEFORE_BAN == 3
DEFAULT_BAN_DURATION_HOURS == 24

\* ------------------------------------------------------------- universes
Sessions == {1, 2}
Peers == {"scoutA", "scoutB"}
HonestScouts == {"scoutA"}
OtherScouts == Peers \ HonestScouts

Pieces == {"a", "b", "c"}
None == "None"

Max2(x, y) == IF x >= y THEN x ELSE y

SeqsUpTo(S, n) == UNION {[1..k -> S] : k \in 0..n}
Drafts == SeqsUpTo(Pieces, MaxDraft)
Prompts == {<<"a">>, <<"b", "c">>}

\* A dict without one key.
DictDel(d, k) == [x \in (DOMAIN d) \ {k} |-> d[x]]
\* A dict with one key set.
DictPut(d, k, v) == [x \in (DOMAIN d) \cup {k} |-> IF x = k THEN v ELSE d[x]]
EmptyDict == [x \in {} |-> 0]

\* ------------------------------------------------------------------ text
\* A text is a sequence of one-character strings.
lower(ch) ==
  CASE ch = "P" -> "p"
    [] ch = "A" -> "a"
    [] OTHER -> ch

str_lower(t) == [i \in 1..Len(t) |-> lower(t[i])]

RECURSIVE lstrip(_)
lstrip(t) == IF t # <<>> /\ Head(t) = " " THEN lstrip(Tail(t)) ELSE t

RECURSIVE rstrip(_)
rstrip(t) ==
  IF t # <<>> /\ t[Len(t)] = " " THEN rstrip(SubSeq(t, 1, Len(t) - 1)) ELSE t

str_strip(t) == rstrip(lstrip(t))

\* Python's `needle in haystack` for strings.
str_in(needle, hay) ==
  \E i \in 1..(Len(hay) + 1) :
    /\ i + Len(needle) - 1 <= Len(hay)
    /\ SubSeq(hay, i, i + Len(needle) - 1) = needle

\* GOLDEN_TICKET_TEMPLATES, abridged to one template per tolerance in use.
GOLDEN_TICKET_TEMPLATES ==
  << [prompt |-> "What is 2+2?", expected |-> <<"4">>, type |-> "exact"],
     [prompt |-> "What is the capital of France?",
      expected |-> <<"P", "a">>, type |-> "contains"] >>

TemplateIds == DOMAIN GOLDEN_TICKET_TEMPLATES
TicketPrompts == {GOLDEN_TICKET_TEMPLATES[i].prompt : i \in TemplateIds}

\* The context of an ordinary (non-ticket) broadcast.
NormalContext == "context"

\* The texts a scout may send as draft_text.
OrdinaryDraftText == <<"a">>
ResponseTexts == { <<>>, <<" ", "4">>, <<"5">>, <<"p", "a", "!">> }

\* ------------------------------------------------- GoldenTicketGenerator
_check_answer(response, expected, tolerance) ==
  LET response_clean == str_lower(str_strip(response))
      expected_clean == str_lower(str_strip(expected))
  IN  CASE tolerance = "exact" -> response_clean = expected_clean
        [] tolerance = "contains" -> str_in(expected_clean, response_clean)
        [] OTHER -> FALSE

\* ScoutReputation.record_attempt
record_attempt(rep, correct) ==
  [golden_attempts |-> rep.golden_attempts + 1,
   golden_correct |-> rep.golden_correct + (IF correct THEN 1 ELSE 0)]

NewReputation == [golden_attempts |-> 0, golden_correct |-> 0]

\* ScoutReputation.accuracy < threshold, on exact fractions:
\* correct/attempts < pct/100  (accuracy is 1.0 when attempts = 0).
accuracy_below(rep, pct) ==
  IF rep.golden_attempts = 0
    THEN 100 < pct
    ELSE rep.golden_correct * 100 < pct * rep.golden_attempts

\* GoldenTicketGenerator._should_ban
\* (_should_ban_mut: the attempt count compared one too early.)
_should_ban_mut(reps, peer_id, min_attempts, pct) ==
  /\ peer_id \in DOMAIN reps
  /\ reps[peer_id].golden_attempts + 1 >= min_attempts
  /\ accuracy_below(reps[peer_id], pct)

_should_ban(reps, peer_id, min_attempts, pct) ==
  /\ peer_id \in DOMAIN reps
  /\ ~ (reps[peer_id].golden_attempts < min_attempts)
  /\ accuracy_below(reps[peer_id], pct)

\* BanEntry.is_active: (time.time() - banned_at) / 3600 < ban_duration_hours
\* (is_active_mut: the comparison turned round.)
is_active_mut(ban, t) == (t - ban.banned_at) > ban.ban_duration_hours

is_active(ban, t) == (t - ban.banned_at) < ban.ban_duration_hours

\* GoldenTicketGenerator._ban_scout: the new ban table.
_ban_scout(bans, reps, peer_id, duration, t) ==
  LET failed == IF peer_id \in DOMAIN reps
                  THEN reps[peer_id].golden_attempts - reps[peer_id].golden_correct
                  ELSE 0
  IN  DictPut(bans, peer_id,
        [banned_at |-> t, ban_duration_hours |-> duration,
         failed_attempts |-> failed])

\* GoldenTicketGenerator._update_reputation: the new (reputation, banned).
\* (_update_reputation_mut: the ban is looked at after an incorrect answer
\* only.)
_update_reputation_mut(reps, bans, peer_id, correct, duration, t) ==
  LET old == IF peer_id \in DOMAIN reps THEN reps[peer_id] ELSE NewReputation
      reps2 == DictPut(reps, peer_id, record_attempt(old, correct))
  IN  [reputation |-> reps2,
       banned |-> IF ~ correct /\ _should_ban(reps2, peer_id,
                                 DEFAULT_MIN_ATTEMPTS_BEFORE_BAN,
                                 DEFAULT_REPUTATION_THRESHOLD_PCT)
                    THEN _ban_scout(bans, reps2, peer_id, duration, t)
                    ELSE bans]

_update_reputation(reps, bans, peer_id, correct, duration, t) ==
  LET old == IF peer_id \in DOMAIN reps THEN reps[peer_id] ELSE NewReputation
      reps2 == DictPut(reps, peer_id, record_attempt(old, correct))
  IN  [reputation |-> reps2,
       banned |-> IF _should_ban(reps2, peer_id,
                                 DEFAULT_MIN_ATTEMPTS_BEFORE_BAN,
                                 DEFAULT_REPUTATION_THRESHOLD_PCT)
                    THEN _ban_scout(bans, reps2, peer_id, duration, t)
                    ELSE bans]

\* GoldenTicketGenerator._save_reputation_db and _save_banned_list: the
\* file afterwards and whether the call raised.  write_ok: makedirs, open
\* and json.dump all went through; `except Exception` logs any failure and
\* the method returns.
\* (_save_reputation_db_mut: the failure is not caught.)
_save_reputation_db_mut(db, reps, write_ok) ==
  [store |-> IF write_ok THEN reps ELSE db, raised |-> ~ write_ok]

_save_reputation_db(db, reps, write_ok) ==
  [store |-> IF write_ok THEN reps ELSE db, raised |-> FALSE]

_save_banned_list(list, bans, write_ok) ==
  [store |-> IF write_ok THEN bans ELSE list, raised |-> FALSE]

\* GoldenTicketGenerator.is_scout_banned: the value returned ...
\* (is_scout_banned_mut: an entry counts whether or not it has expired.)
is_scout_banned_mut(bans, peer_id, t) ==
  peer_id \in DOMAIN bans

is_scout_banned(bans, peer_id, t) ==
  peer_id \in DOMAIN bans /\ is_active(bans[peer_id], t)

\* ... and the ban table it leaves (an expired entry is deleted).
purge_expired(bans, peer_id, t) ==
  IF peer_id \in DOMAIN bans /\ ~ is_active(bans[peer_id], t)
    THEN DictDel(bans, peer_id)
    ELSE bans

\* GoldenTicketGenerator.reset_reputation: the new reputation table.
\* (reset_reputation_mut: every peer's counters are zeroed.)
reset_reputation_mut(reps, peer_id) ==
  IF peer_id \in DOMAIN reps
    THEN [q \in DOMAIN reps |-> NewReputation]
    ELSE reps

reset_reputation(reps, peer_id) ==
  IF peer_id \in DOMAIN reps
    THEN DictPut(reps, peer_id, NewReputation)
    ELSE reps

\* GoldenTicketGenerator.verify_response: verdict and the new tables.
\* (verify_response_kept_mut: the ticket left in _active_tickets;
\*  verify_response_unknown_mut: a response without a ticket counted as a
\*  failed attempt.)
verify_response_kept_mut(tickets, reps, bans, rid, peer_id, response, duration, t) ==
  IF rid \notin DOMAIN tickets
    THEN [verdict |-> "None", tickets |-> tickets,
          reputation |-> reps, banned |-> bans]
    ELSE
      LET tpl == GOLDEN_TICKET_TEMPLATES[tickets[rid]]
          is_correct == _check_answer(response, tpl.expected, tpl.type)
          upd == _update_reputation(reps, bans, peer_id, is_correct, duration, t)
      IN  [verdict |-> IF is_correct THEN "True" ELSE "False",
           tickets |-> tickets,
           reputation |-> upd.reputation, banned |-> upd.banned]

verify_response_unknown_mut(tickets, reps, bans, rid, peer_id, response, duration, t) ==
  IF rid \notin DOMAIN tickets
    THEN LET upd == _update_reputation(reps, bans, peer_id, FALSE, duration, t)
         IN  [verdict |-> "None", tickets |-> tickets,
              reputation |-> upd.reputation, banned |-> upd.banned]
    ELSE
      LET tpl == GOLDEN_TICKET_TEMPLATES[tickets[rid]]
          is_correct == _check_answer(response, tpl.expected, tpl.type)
          upd == _update_reputation(reps, bans, peer_id, is_correct, duration, t)
      IN  [verdict |-> IF is_correct THEN "True" ELSE "False",
           tickets |-> DictDel(tickets, rid),
           reputation |-> upd.reputation, banned |-> upd.banned]

verify_response(tickets, reps, bans, rid, peer_id, response, duration, t) ==
  IF rid \notin DOMAIN tickets
    THEN [verdict |-> "None", tickets |-> tickets,
          reputation |-> reps, banned |-> bans]
    ELSE
      LET tpl == GOLDEN_TICKET_TEMPLATES[tickets[rid]]
          is_correct == _check_answer(response, tpl.expected, tpl.type)
          upd == _update_reputation(reps, bans, peer_id, is_correct, duration, t)
      IN  [verdict |-> IF is_correct THEN "True" ELSE "False",
           tickets |-> DictDel(tickets, rid),
           reputation |-> upd.reputation, banned |-> upd.banned]


\* ------------------------------------------------------------ KV snapshots
\* BitNetRuntime.export_kv_snapshot / import_kv_snapshot.  A snapshot buffer
\* is a header of four 32-bit fields (magic, version, n_past, payload
\* length) followed by the payload; the payload is written here as the cache
\* entries it restores, one unit of length per entry.
SNAPSHOT_MAGIC == 1397248580
SNAPSHOT_VERSION == 1
SNAPSHOT_HEADER_SIZE == 16

SnapshotLen(buf) == SNAPSHOT_HEADER_SIZE + Len(buf.body)

export_kv_snapshot(kv) ==
  [magic |-> SNAPSHOT_MAGIC, version |-> SNAPSHOT_VERSION,
   n_past |-> Len(kv), payload_len |-> Len(kv), body |-> kv]

\* shard_kv_snapshot_import: the cache becomes what the payload holds;
\* native_ok is FALSE when the library reports failure.
shard_kv_snapshot_import(buf, kv, native_ok) ==
  IF native_ok THEN buf.body ELSE kv

\* import_kv_snapshot on a runtime whose cache is kv: `native` says that the
\* buffer was passed to shard_kv_snapshot_import.
\* (import_kv_snapshot_mut: the length of the buffer is not compared with
\* the header's.)
import_kv_snapshot_mut(buf, kv, native_ok) ==
  IF \/ buf.magic # SNAPSHOT_MAGIC
     \/ buf.version # SNAPSHOT_VERSION
    THEN [raised |-> TRUE, native |-> FALSE, cache |-> kv]
    ELSE [raised |-> ~ native_ok, native |-> TRUE,
          cache |-> shard_kv_snapshot_import(buf, kv, native_ok)]

import_kv_snapshot(buf, kv, native_ok) ==
  IF \/ buf.magic # SNAPSHOT_MAGIC
     \/ buf.version # SNAPSHOT_VERSION
     \/ SnapshotLen(buf) # SNAPSHOT_HEADER_SIZE + buf.payload_len
    THEN [raised |-> TRUE, native |-> FALSE, cache |-> kv]
    ELSE [raised |-> ~ native_ok, native |-> TRUE,
          cache |-> shard_kv_snapshot_import(buf, kv, native_ok)]

\* -------------------------------------------------- KvCheckpointManager
CHECKPOINT_TAIL_FLOOR == 16
DEFAULT_EVERY_N_TOKENS == 8
DEFAULT_MAX_GENERATED_TAIL == 256

\* generated[-n:]
LastN(seq, n) ==
  IF Len(seq) <= n THEN seq ELSE SubSeq(seq, Len(seq) - n + 1, Len(seq))

\* KvCheckpointManager.maybe_checkpoint: the retained checkpoint afterwards.
\* every_n and max_tail are the constructor's arguments; export_ok:
\* export_kv_snapshot returns (it raises otherwise, and the assignment is not
\* reached).
\* (maybe_checkpoint_mut: the cadence test left out.)
maybe_checkpoint_mut(latest_cp, every_n, max_tail, gen, emitted_tokens, payload, export_ok) ==
  IF emitted_tokens <= 0
    THEN latest_cp
  ELSE IF ~ export_ok THEN latest_cp
  ELSE << [payload |-> payload,
           token_count |-> emitted_tokens,
           generated_tail |->
             LastN(gen, Max2(CHECKPOINT_TAIL_FLOOR, max_tail))] >>

maybe_checkpoint(latest_cp, every_n, max_tail, gen, emitted_tokens, payload, export_ok) ==
  IF emitted_tokens <= 0 \/ (emitted_tokens % Max2(1, every_n)) # 0
    THEN latest_cp
  ELSE IF ~ export_ok THEN latest_cp
  ELSE << [payload |-> payload,
           token_count |-> emitted_tokens,
           generated_tail |->
             LastN(gen, Max2(CHECKPOINT_TAIL_FLOOR, max_tail))] >>

\* KvCheckpointManager.restore_latest on a runtime whose cache is kv:
\* `imported` lists the buffers handed to import_kv_snapshot, `raised` says
\* that the import raised (the return statement is not reached then).
\* (restore_latest_mut: the checkpoint is dropped once it has been restored.)
restore_latest_mut(latest_cp, kv, native_ok) ==
  IF latest_cp = <<>>
    THEN [found |-> FALSE, raised |-> FALSE, imported |-> <<>>,
          cache |-> kv, latest |-> latest_cp]
    ELSE LET r == import_kv_snapshot(latest_cp[1].payload, kv, native_ok)
         IN [found |-> TRUE, raised |-> r.raised,
             imported |-> << latest_cp[1].payload >>,
             cache |-> r.cache, latest |-> <<>>]

restore_latest(latest_cp, kv, native_ok) ==
  IF latest_cp = <<>>
    THEN [found |-> FALSE, raised |-> FALSE, imported |-> <<>>,
          cache |-> kv, latest |-> latest_cp]
    ELSE LET r == import_kv_snapshot(latest_cp[1].payload, kv, native_ok)
         IN [found |-> TRUE, raised |-> r.raised,
             imported |-> << latest_cp[1].payload >>,
             cache |-> r.cache, latest |-> latest_cp]

\* ------------------------------------------------------------ RateLimiter
BROADCAST_INTERVAL_MS == 50
DEFAULT_RATE_LIMIT_PER_MINUTE == 60
WINDOW_SECONDS == 60

\* RateLimiter.check at time t: the pair returned and _buckets afterwards.
\* limit is the constructor's argument.
\* (RateLimiter_check_mut: a bucket of an earlier window is not reset.)
RateLimiter_check_mut(bks, limit, key, t) ==
  LET now_window == t \div WINDOW_SECONDS
      got == IF key \in DOMAIN bks THEN bks[key] ELSE <<0, now_window>>
      count == got[1]
      window == got[2]
  IN  IF count >= Max2(1, limit)
        THEN [allowed |-> FALSE, remaining |-> 0, buckets |-> bks]
        ELSE [allowed |-> TRUE, remaining |-> Max2(1, limit) - (count + 1),
              buckets |-> DictPut(bks, key, <<count + 1, window>>)]

RateLimiter_check(bks, limit, key, t) ==
  LET now_window == t \div WINDOW_SECONDS
      got == IF key \in DOMAIN bks THEN bks[key] ELSE <<0, now_window>>
      count == IF got[2] # now_window THEN 0 ELSE got[1]
      window == IF got[2] # now_window THEN now_window ELSE got[2]
  IN  IF count >= Max2(1, limit)
        THEN [allowed |-> FALSE, remaining |-> 0, buckets |-> bks]
        ELSE [allowed |-> TRUE, remaining |-> Max2(1, limit) - (count + 1),
              buckets |-> DictPut(bks, key, <<count + 1, window>>)]

\* ----------------------------------------------------------- BitNetRuntime
\* The native library behind the shard ABI: shard_tokenize prepends the
\* beginning-of-sequence id, shard_eval appends to the KV cache,
\* shard_rollback truncates it, shard_get_logits is a deterministic function
\* of the cache.  A cache entry records the token id and the session whose
\* call evaluated it.
BOS == 128000
ROLLBACK_ALL == 999999

TokenId(piece) ==
  CASE piece = "a" -> 0
    [] piece = "b" -> 1
    [] OTHER -> 2

shard_token_to_piece(id) ==
  CASE id = 0 -> "a"
    [] id = 1 -> "b"
    [] OTHER -> "c"

shard_tokenize(text) == <<BOS>> \o [i \in 1..Len(text) |-> TokenId(text[i])]

shard_eval(kv, ids, s) == kv \o [i \in 1..Len(ids) |-> [tok |-> ids[i], by |-> s]]

shard_rollback(kv, steps) ==
  IF steps >= Len(kv) THEN <<>> ELSE SubSeq(kv, 1, Len(kv) - steps)

RECURSIVE SumIds(_)
SumIds(kv) == IF kv = <<>> THEN 0 ELSE kv[1].tok + SumIds(Tail(kv))

\* The index of the largest logit at this cache state; -1: no logits read.
shard_get_logits(kv) ==
  IF kv = <<>> THEN -1 ELSE (Len(kv) + SumIds(kv)) % Cardinality(Pieces)

\* BitNetRuntime.encode_text: the tokenizer's ids without the leading BOS.
encode_text(text) ==
  LET tokens == shard_tokenize(text)
  IN  IF tokens # <<>> /\ tokens[1] = BOS THEN Tail(tokens) ELSE tokens

\* BitNetRuntime.decode_token
decode_token(id) == shard_token_to_piece(id)

\* BitNetRuntime.eval_text: the cache afterwards.
eval_text(kv, text, s) ==
  LET ids == encode_text(text)
  IN  IF ids = <<>> THEN kv ELSE shard_eval(kv, ids, s)

\* BitNetRuntime.rollback
rollback(kv, steps) == shard_rollback(kv, steps)

\* BitNetRuntime.generate_next_token: the argument generated_text is not
\* read on the shard ABI; the token comes from the cache alone.
generate_next_token(kv) ==
  LET best_idx == shard_get_logits(kv)
  IN  IF best_idx < 0 THEN None ELSE decode_token(best_idx)

\* BitNetRuntime.verify_prefix, from the draft token being compared onwards.
RECURSIVE verify_from(_, _, _, _)
verify_from(kv, acc, draft, s) ==
  IF draft = <<>> THEN [accepted |-> acc, correction |-> None, cache |-> kv]
  ELSE LET expected == generate_next_token(kv)
       IN  IF expected = None
             THEN [accepted |-> acc, correction |-> None, cache |-> kv]
           ELSE IF Head(draft) = expected
             THEN verify_from(eval_text(kv, <<Head(draft)>>, s),
                              Append(acc, Head(draft)), Tail(draft), s)
           ELSE [accepted |-> acc, correction |-> expected, cache |-> kv]

\* (verify_prefix_mut: only the first draft token is compared.)
verify_prefix_mut(kv, generated_text, draft_text, s) ==
  verify_from(kv, <<>>,
              IF draft_text = <<>> THEN <<>> ELSE << Head(draft_text) >>, s)

verify_prefix(kv, generated_text, draft_text, s) ==
  verify_from(kv, <<>>, draft_text, s)

\* oracle_api._verify_draft with the runtime loaded.
_verify_draft(kv, gen, draft, s) == verify_prefix(kv, gen, draft, s)

\* BitNetRuntime.verify_prefix on an engine whose shard_eval returns a
\* non-zero code at its call number k + 1: eval_text raises RuntimeError
\* there with the cache as the k calls before have left it.
RECURSIVE verify_from_raising(_, _, _, _, _)
verify_from_raising(kv, acc, draft, s, k) ==
  IF draft = <<>>
    THEN [raised |-> FALSE, accepted |-> acc, correction |-> None, cache |-> kv]
  ELSE LET expected == generate_next_token(kv)
       IN  IF expected = None
             THEN [raised |-> FALSE, accepted |-> acc, correction |-> None,
                   cache |-> kv]
           ELSE IF Head(draft) = expected
             THEN IF k = 0
                    THEN [raised |-> TRUE, accepted |-> acc,
                          correction |-> None, cache |-> kv]
                    ELSE verify_from_raising(
                           eval_text(kv, <<Head(draft)>>, s),
                           Append(acc, Head(draft)), Tail(draft), s, k - 1)
           ELSE [raised |-> FALSE, accepted |-> acc, correction |-> expected,
                 cache |-> kv]

\* oracle_api._verify_draft on that engine: `except Exception` logs and
\* returns ([], None).
_verify_draft_except(kv, gen, draft, s, k) ==
  LET r == verify_from_raising(kv, <<>>, draft, s, k)
  IN  [accepted |-> IF r.raised THEN <<>> ELSE r.accepted,
       correction |-> IF r.raised THEN None ELSE r.correction,
       cache |-> r.cache]

\* oracle_api.chat_completions and _stream_generate: what the client is
\* sent when the generator has yielded `tokens` and then returned
\* (failed = FALSE) or raised.  On the streaming path every token went out
\* as a chunk when it was yielded and the error is one more chunk; on the
\* other path the tokens are collected and HTTPException(503) replaces them.
_stream_generate(tokens, failed) ==
  [stream |-> TRUE, tokens |-> tokens, error |-> failed, status |-> 200]

chat_completions(stream, tokens, failed) ==
  IF stream THEN _stream_generate(tokens, failed)
  ELSE IF failed
    THEN [stream |-> FALSE, tokens |-> <<>>, error |-> TRUE, status |-> 503]
    ELSE [stream |-> FALSE, tokens |-> tokens, error |-> FALSE,
          status |-> 200]

\* The keys request_id and f"{request_id}_idx" of _session_eval_pos.
PosKey(rid) == <<rid, "pos">>
IdxKey(rid) == <<rid, "idx">>
DictGet(d, k, default) == IF k \in DOMAIN d THEN d[k] ELSE default

RECURSIVE eval_each(_, _, _)
eval_each(kv, toks, s) ==
  IF toks = <<>> THEN kv
  ELSE eval_each(eval_text(kv, <<Head(toks)>>, s), Tail(toks), s)

\* oracle_api._local_generate: the token returned, the cache and
\* _session_eval_pos afterwards.
_local_generate(kv, tab, gen, prompt_text, rid, s) ==
  LET pos == DictGet(tab, PosKey(rid), 0)
      kv1 == IF pos = 0
               THEN eval_text(rollback(kv, ROLLBACK_ALL), prompt_text, s)
               ELSE kv
      tab1 == IF pos = 0
                THEN DictPut(tab, PosKey(rid), Len(encode_text(prompt_text)))
                ELSE tab
      gen_idx == DictGet(tab1, IdxKey(rid), 0)
      kv2 == IF gen_idx < Len(gen)
               THEN eval_each(kv1, SubSeq(gen, gen_idx + 1, Len(gen)), s)
               ELSE kv1
      tab2 == DictPut(tab1, IdxKey(rid), Max2(gen_idx, Len(gen)))
  IN  [token |-> generate_next_token(kv2), cache |-> kv2,
       session_eval_pos |-> tab2]

\* --------------------------------------------------- RustControlPlaneClient
\* What one HTTP exchange with the sidecar can come to: a response with a
\* status code and a body, or an exception raised by httpx.
HttpStatuses == {200, 201, 204, 400, 404, 500, 503}
HttpBodies == {"with_result", "without_result", "not_json", "not_a_dict"}
HttpErrors == {"ConnectError", "ReadTimeout", "RemoteProtocolError"}

HttpOutcomes ==
  { [kind |-> "response", status |-> st, body |-> b] :
      st \in HttpStatuses, b \in HttpBodies }
  \cup { [kind |-> k, status |-> 0, body |-> ""] : k \in HttpErrors }

\* `except Exception`: the exception classes the clause catches.
\* (except_Exception_mut: a clause that names the connection error only.)
except_Exception_mut(exc) == exc \in {"ConnectError"}

except_Exception(exc) ==
  exc \in HttpErrors \cup {"JSONDecodeError", "AttributeError"}

\* A method returns value, or the exception exc leaves its try block:
\* caught, the method returns fallback; not caught, it reaches the caller.
\* requests counts the HTTP requests the method has issued.
Returned(value) == [value |-> value, raised |-> "", requests |-> 1]
Thrown(exc, fallback) ==
  IF except_Exception(exc)
    THEN [value |-> fallback, raised |-> "", requests |-> 1]
    ELSE [value |-> "", raised |-> exc, requests |-> 1]

\* RustControlPlaneClient.broadcast_work
broadcast_work(o) ==
  IF o.kind = "response"
    THEN Returned(IF o.status = 200 THEN "True" ELSE "False")
    ELSE Thrown(o.kind, "False")

\* RustControlPlaneClient.try_pop_result
try_pop_result(o) ==
  IF o.kind = "response"
    THEN IF o.status = 200
           THEN CASE o.body = "not_json" -> Thrown("JSONDecodeError", "None")
                  [] o.body = "not_a_dict" -> Thrown("AttributeError", "None")
                  [] o.body = "with_result" -> Returned("result")
                  [] OTHER -> Returned("None")
           ELSE Returned("None")
    ELSE Thrown(o.kind, "None")

\* RustControlPlaneClient.health
health(o) ==
  IF o.kind = "response"
    THEN IF o.status = 200
           THEN IF o.body = "not_json"
                  THEN Thrown("JSONDecodeError", "None")
                  ELSE Returned("json")
           ELSE Returned("None")
    ELSE Thrown(o.kind, "None")

\* RustControlPlaneClient.submit_draft_result
submit_draft_result(o) ==
  IF o.kind = "response"
    THEN Returned(IF o.status = 200 THEN "True" ELSE "False")
    ELSE Thrown(o.kind, "False")

ClientMethods ==
  {"broadcast_work", "try_pop_result", "health", "submit_draft_result"}

ClientReturn(method, o) ==
  CASE method = "broadcast_work" -> broadcast_work(o)
    [] method = "try_pop_result" -> try_pop_result(o)
    [] method = "health" -> health(o)
    [] OTHER -> submit_draft_result(o)

NoCall == [method |-> "", outcome |-> [kind |-> "", status |-> 0, body |-> ""],
           ret |-> Returned("")]

\* A call of a KvCheckpointManager method as an observer records it.
NoMgrCall == [op |-> "", generated |-> <<>>, emitted_tokens |-> 0,
              export_ok |-> FALSE, found |-> FALSE, raised |-> FALSE,
              imported |-> <<>>]

\* The threads that call verify_response, and a thread that has not called.
Threads == {1, 2}
NoThread == [pc |-> "idle", request_id |-> 0, scout_peer_id |-> "",
             scout_response |-> <<>>, ticket |-> 0, data |-> <<>>, ret |-> ""]

\* A call of import_kv_snapshot as an observer records it.
\* What the client of POST /v1/chat/completions has been sent: over which
\* path, the tokens, whether an error was reported and the HTTP status.
NoReply == [stream |-> FALSE, tokens |-> <<>>, error |-> FALSE, status |-> 0]

\* A call of a GoldenTicketGenerator method that saves a table: its number,
\* the method and peer, whether a write was attempted and failed, what the
\* caller got.
NoLedgerCall == [n |-> 0, op |-> "", peer_id |-> "", failed |-> FALSE,
                 raised |-> FALSE, ret |-> FALSE]

NoImportCall == [buf |-> export_kv_snapshot(<<>>), raised |-> FALSE,
                 native |-> FALSE]

\* ------------------------------------------------------------------ state
VARIABLES
  \* configuration, fixed when the process starts
  PITCH_MODE,            \* SHARD_PITCH_MODE = "1"
  kv_checkpoint_manager, \* a KvCheckpointManager is passed to the loop
  every_n_tokens,        \* its constructor argument every_n_tokens
  max_generated_tail,    \* its constructor argument max_generated_tail
  limit_per_minute,      \* the argument of RateLimiter's constructor
  ban_duration_hours,    \* GoldenTicketGenerator.ban_duration_hours
  injection_on,          \* injection_rate > 0
  store_fails,           \* writes to the data directory may fail
  \* cooperative_generate, one activation per session
  pc, max_tokens, request_id, prompt, generated, tokens_emitted,
  remote_disabled, context, result, accepted, correction, latest,
  emitted,               \* the stream yielded so far, each token with its origin
  log,                   \* the outcome of the last poll: what was decided
                         \* about the popped result, and whose it was
  \* GoldenTicketGenerator (process-wide singleton)
  active_tickets, reputation, banned,
  reputation_db,         \* what REPUTATION_DB_PATH holds: peer -> counters
  banned_list,           \* what BANNED_LIST_PATH holds: peer -> ban entry
  now,                   \* time.time(), in hours
  \* the sidecar: the work items it has received, and the <<scout, work>>
  \* pairs an honest scout has already answered
  works, answered,
  http,                  \* the last call of a RustControlPlaneClient method
                         \* looked at on its own: the exchange and what the
                         \* caller got
  \* the engine singleton BITNET and oracle_api._session_eval_pos
  cache, session_eval_pos,
  \* components looked at on their own, outside the generation loop
  mgr_call,              \* the last call of a KvCheckpointManager method: its
                         \* arguments and the buffers it handed to
                         \* import_kv_snapshot
  import_call,           \* the last call of BitNetRuntime.import_kv_snapshot:
                         \* the buffer and what became of it
  \* a RateLimiter
  seconds,               \* time.time(), in seconds
  buckets,               \* RateLimiter._buckets: key -> <<count, window>>
  rate_log,              \* the calls of check so far: key, time, and the
                         \* pair returned
  reply,                 \* what the chat endpoint has sent for each request
  \* the loop's clock, looked at on its own
  perf_counter,          \* time.perf_counter(), in milliseconds
  loop_now,              \* the local `now` of each activation (line 250)
  last_broadcast,        \* the local last_broadcast of each activation
  broadcasts,            \* the broadcast_work calls of each activation: the
                         \* instant and what the call returned
  threads,               \* the calls of verify_response made from threads
                         \* of their own: where each stands, its arguments
                         \* and locals, and what it returns
  ledger_call            \* the last call of a GoldenTicketGenerator method
                         \* that saves a table, looked at on its own

cfgVars == <<PITCH_MODE, kv_checkpoint_manager, every_n_tokens,
             max_generated_tail, limit_per_minute, ban_duration_hours,
             injection_on, store_fails>>
loopVars == <<pc, max_tokens, request_id, prompt, generated, tokens_emitted,
              remote_disabled, context, result, accepted, correction, latest,
              emitted, log>>
netVars == <<works, answered, http>>
storeVars == <<reputation_db, banned_list>>
gtVars == <<active_tickets, reputation, banned, storeVars>>
engineVars == <<cache, session_eval_pos>>
managerVars == <<mgr_call, import_call>>
rateVars == <<seconds, buckets, rate_log>>
timeVars == <<perf_counter, loop_now, last_broadcast, broadcasts>>
sideVars == <<managerVars, rateVars, timeVars, reply, threads, ledger_call>>
vars == <<cfgVars, loopVars, gtVars, now, netVars, engineVars, sideVars>>

Upd(f, s, v) == [f EXCEPT ![s] = v]

\* What a write to the data directory can come to.
WriteOutcomes == IF store_fails THEN BOOLEAN ELSE {TRUE}

NoLog == [event |-> "", scout |-> "", ban_expired |-> FALSE]

Started == {s \in Sessions : pc[s] # "idle"}
Alive == {s \in Sessions : pc[s] \notin {"idle", "done", "eos", "raised"}}

InitSessions ==
  /\ pc = [s \in Sessions |-> "idle"]
  /\ max_tokens = [s \in Sessions |-> 0]
  /\ request_id = [s \in Sessions |-> 0]
  /\ prompt = [s \in Sessions |-> <<>>]
  /\ generated = [s \in Sessions |-> <<>>]
  /\ tokens_emitted = [s \in Sessions |-> 0]
  /\ remote_disabled = [s \in Sessions |-> FALSE]
  /\ context = [s \in Sessions |-> NormalContext]
  /\ result = [s \in Sessions |-> <<>>]
  /\ accepted = [s \in Sessions |-> <<>>]
  /\ correction = [s \in Sessions |-> None]
  /\ latest = [s \in Sessions |-> <<>>]
  /\ emitted = [s \in Sessions |-> <<>>]
  /\ log = [s \in Sessions |-> NoLog]

InitGlobals ==
  /\ active_tickets = EmptyDict
  /\ reputation = EmptyDict
  /\ banned = EmptyDict
  /\ reputation_db = EmptyDict
  /\ banned_list = EmptyDict
  /\ now = 0
  /\ works = {}
  /\ answered = {}
  /\ http = NoCall
  /\ cache = <<>>
  /\ session_eval_pos = EmptyDict
  /\ mgr_call = NoMgrCall
  /\ import_call = NoImportCall
  /\ seconds = 0
  /\ buckets = EmptyDict
  /\ rate_log = <<>>
  /\ threads = [th \in Threads |-> NoThread]
  /\ ledger_call = NoLedgerCall
  /\ reply = [s \in Sessions |-> NoReply]
  /\ perf_counter = BROADCAST_INTERVAL_MS
  /\ loop_now = [s \in Sessions |-> 0]
  /\ last_broadcast = [s \in Sessions |-> 0]
  /\ broadcasts = [s \in Sessions |-> <<>>]

\* ----------------------------------------------------- cooperative_generate
\* request_id = f"req-{int(time.time() * 1000)}": the millisecond of the call,
\* counted from 1; a later call gets the same or a later millisecond.
NextRequestIds ==
  IF Started = {} THEN {1}
  ELSE LET m == CHOOSE r \in {request_id[t] : t \in Started} :
                  \A t \in Started : request_id[t] <= r
       IN  {m, m + 1}

\* A chat request calls cooperative_generate(prompt, max_tokens).
StartRequest(s, budgets, promptSet) ==
  /\ pc[s] = "idle"
  /\ \E mt \in budgets, p \in promptSet, rid \in NextRequestIds :
       /\ max_tokens' = Upd(max_tokens, s, mt)
       /\ prompt' = Upd(prompt, s, p)
       /\ request_id' = Upd(request_id, s, rid)
  /\ pc' = Upd(pc, s, "loop")
  /\ UNCHANGED <<cfgVars, sideVars, generated, tokens_emitted, remote_disabled, context,
                 result, accepted, correction, latest, emitted, log, gtVars,
                 now, netVars, engineVars>>

\* Line 233: `while tokens_emitted < max_tokens`
\* (LoopCondition_mut: the loop left one token early.)
LoopCondition_mut(s) == tokens_emitted[s] + 1 < max_tokens[s]

LoopCondition(s) == tokens_emitted[s] < max_tokens[s]

\* Line 371: `if tokens_emitted >= max_tokens: break`
\* (AcceptedBudgetSpent_mut: the comparison written as `>`.)
AcceptedBudgetSpent_mut(s) == tokens_emitted[s] > max_tokens[s]

AcceptedBudgetSpent(s) == tokens_emitted[s] >= max_tokens[s]

\* Line 377: `if correction and tokens_emitted < max_tokens`
CorrectionAdmitted(s) == correction[s] # None /\ tokens_emitted[s] < max_tokens[s]

\* Lines 237-238: `if local_token is None: break` ends the generator.
\* (OnLocalNone_mut: the loop body carried on without a token.)
OnLocalNone_mut == "throttle"

OnLocalNone == "eos"

\* generated.append(tok); yield tok; tokens_emitted += 1
\* origin: "local", "draft" (an accepted draft token) or "correction"; scout:
\* the scout whose draft was being verified, "" for a local token.
\* (Yield_mut: the token put at the front of `generated`.)
Yield_mut(s, tok, origin, scout) ==
  /\ generated' = Upd(generated, s, <<tok>> \o generated[s])
  /\ emitted' = Upd(emitted, s,
       Append(emitted[s], [tok |-> tok, origin |-> origin, scout |-> scout]))
  /\ tokens_emitted' = Upd(tokens_emitted, s, tokens_emitted[s] + 1)

Yield(s, tok, origin, scout) ==
  /\ generated' = Upd(generated, s, Append(generated[s], tok))
  /\ emitted' = Upd(emitted, s,
       Append(emitted[s], [tok |-> tok, origin |-> origin, scout |-> scout]))
  /\ tokens_emitted' = Upd(tokens_emitted, s, tokens_emitted[s] + 1)

\* The loop condition fails: the generator returns.
Finish(s) ==
  /\ pc[s] = "loop"
  /\ ~ LoopCondition(s)
  /\ pc' = Upd(pc, s, "done")
  /\ UNCHANGED <<cfgVars, sideVars, max_tokens, request_id, prompt, generated,
                 tokens_emitted, remote_disabled, context, result, accepted,
                 correction, latest, emitted, log, gtVars, now, netVars,
                 engineVars>>

\* Lines 234-248 once local_model_generate has returned local_token: the
\* yield of the token and the checkpoint capture.
LocalStepTaken(s, local_token) ==
  /\ pc[s] = "loop"
  /\ LoopCondition(s)
  /\ \E export_ok \in BOOLEAN :
       IF local_token = None
         THEN /\ pc' = Upd(pc, s, OnLocalNone)
              /\ UNCHANGED <<generated, emitted, tokens_emitted, latest>>
         ELSE /\ Yield(s, local_token, "local", "")
              /\ latest' = Upd(latest, s,
                   IF kv_checkpoint_manager
                     THEN maybe_checkpoint(latest[s], every_n_tokens,
                                           max_generated_tail,
                                           generated'[s], tokens_emitted'[s],
                                           export_kv_snapshot(cache'),
                                           export_ok)
                     ELSE latest[s])
              /\ pc' = Upd(pc, s, "throttle")
  /\ log' = Upd(log, s, NoLog)
  /\ UNCHANGED <<cfgVars, sideVars, max_tokens, request_id, prompt, remote_disabled,
                 context, result, accepted, correction, gtVars, now, netVars>>

\* The local step with a local model that may return any piece or None.
LocalStepAny(s, pieces) ==
  /\ UNCHANGED engineVars
  /\ \E local_token \in pieces \cup {None} : LocalStepTaken(s, local_token)

\* A deterministic local model that looks at `generated` and the prompt
\* only: the piece is picked by the length of what it has been given.
local_model_generate(gen, prompt_text) ==
  shard_token_to_piece((Len(gen) + Len(prompt_text)) % Cardinality(Pieces))

\* The stream of n tokens that model gives when each token is appended to
\* `generated` and nothing else touches `generated`.
RECURSIVE PlainDecode(_, _)
PlainDecode(prompt_text, n) ==
  IF n = 0 THEN <<>>
  ELSE LET g == PlainDecode(prompt_text, n - 1)
       IN  Append(g, local_model_generate(g, prompt_text))

\* The local step with that model.
LocalStepModel(s) ==
  /\ UNCHANGED engineVars
  /\ LocalStepTaken(s, local_model_generate(generated[s], prompt[s]))

\* The local step with oracle_api._local_generate on the engine singleton.
LocalStep(s) ==
  LET g == _local_generate(cache, session_eval_pos, generated[s], prompt[s],
                           request_id[s], s)
  IN  /\ cache' = g.cache
      /\ session_eval_pos' = g.session_eval_pos
      /\ LocalStepTaken(s, g.token)

\* The local step on an engine whose shard_eval fails at the first call
\* _local_generate makes of it: eval_text raises, _local_generate lets the
\* error through (oracle_api.py:609-613) and so does the generator, which
\* is finished by it.
LocalStepRaises(s) ==
  /\ pc[s] = "loop"
  /\ LoopCondition(s)
  /\ LET pos == DictGet(session_eval_pos, PosKey(request_id[s]), 0)
         gen_idx == DictGet(session_eval_pos, IdxKey(request_id[s]), 0)
     IN /\ \/ pos = 0 /\ encode_text(prompt[s]) # <<>>
           \/ pos # 0 /\ gen_idx < Len(generated[s])
        /\ cache' = IF pos = 0 THEN rollback(cache, ROLLBACK_ALL) ELSE cache
  /\ pc' = Upd(pc, s, "raised")
  /\ UNCHANGED <<cfgVars, sideVars, max_tokens, request_id, prompt, generated,
                 tokens_emitted, remote_disabled, context, result, accepted,
                 correction, latest, emitted, log, gtVars, now, netVars,
                 session_eval_pos>>

\* The tokens of a stream.
StreamTokens(stream) == [i \in 1..Len(stream) |-> stream[i].tok]

\* The endpoint answers the request whose generator has returned or raised;
\* stream is payload.stream, which nothing in the loop reads.
ChatReply(s, stream) ==
  /\ pc[s] \in {"done", "eos", "raised"}
  /\ reply[s] = NoReply
  /\ reply' = Upd(reply, s,
       chat_completions(stream, StreamTokens(emitted[s]), pc[s] = "raised"))
  /\ UNCHANGED <<cfgVars, loopVars, gtVars, now, netVars, engineVars,
                 managerVars, rateVars, timeVars, threads, ledger_call>>

\* `if remote_disabled: continue`, else the poll is issued.
\* (AfterBroadcast_mut: the `continue` left out.)
AfterBroadcast_mut(s) == "poll"

AfterBroadcast(s) == IF remote_disabled[s] THEN "loop" ELSE "poll"

\* Lines 250-262: the 50 ms throttle and the Golden Ticket injection.
\* `due` is (now - last_broadcast) >= 0.05; `inject` is the outcome of
\* random() < injection_rate; `tpl` the template drawn.
ThrottleDue(s, due) ==
  /\ pc[s] = "throttle"
  /\ \E inject \in BOOLEAN, tpl \in TemplateIds :
       IF ~ due
         THEN /\ pc' = Upd(pc, s, AfterBroadcast(s))
              /\ UNCHANGED <<context, active_tickets>>
         ELSE IF inject /\ injection_on
           THEN /\ active_tickets' = DictPut(active_tickets, request_id[s], tpl)
                /\ context' = Upd(context, s, GOLDEN_TICKET_TEMPLATES[tpl].prompt)
                /\ pc' = Upd(pc, s, "broadcast")
           ELSE /\ context' = Upd(context, s, NormalContext)
                /\ pc' = Upd(pc, s, "broadcast")
                /\ UNCHANGED active_tickets
  /\ UNCHANGED <<cfgVars, managerVars, rateVars, reply, threads, ledger_call,
                 max_tokens, request_id, prompt, generated, tokens_emitted,
                 remote_disabled, result, accepted, correction, latest,
                 emitted, log, reputation, banned, storeVars, now, netVars,
                 engineVars>>

\* The throttle with the clock not followed: the comparison may come out
\* either way.
Throttle(s) ==
  /\ \E due \in BOOLEAN : ThrottleDue(s, due)
  /\ UNCHANGED timeVars

\* Line 251: (now - last_broadcast) >= 0.05, in milliseconds.
BroadcastDue(t, last) == t - last >= BROADCAST_INTERVAL_MS

\* The throttle on the loop's clock: line 250 reads the clock, line 251
\* compares, and when the broadcast is due broadcast_work is called.
ThrottleAt(s) ==
  /\ ThrottleDue(s, BroadcastDue(perf_counter, last_broadcast[s]))
  /\ loop_now' = Upd(loop_now, s, perf_counter)
  /\ broadcasts' =
       IF BroadcastDue(perf_counter, last_broadcast[s])
         THEN Upd(broadcasts, s,
                Append(broadcasts[s], [at |-> perf_counter, ret |-> ""]))
         ELSE broadcasts
  /\ UNCHANGED <<perf_counter, last_broadcast>>

\* Lines 264-268: broadcast_work returns True or False (oks: the outcomes
\* the control plane can give).
BroadcastReturned(s, ok) ==
  /\ pc[s] = "broadcast"
  /\ works' = IF ok
                THEN works \cup {[request_id |-> request_id[s], ctx |-> context[s]]}
                ELSE works
  /\ pc' = Upd(pc, s, AfterBroadcast(s))
  /\ UNCHANGED <<cfgVars, managerVars, rateVars, reply, threads, ledger_call,
                 max_tokens, request_id, prompt, generated, tokens_emitted,
                 remote_disabled, context, result, accepted, correction,
                 latest, emitted, log, gtVars, now, answered, http,
                 engineVars>>

\* The return with the clock not followed.
BroadcastReturn(s, oks) ==
  /\ \E ok \in oks : BroadcastReturned(s, ok)
  /\ UNCHANGED timeVars

\* Line 265: last_broadcast = now, whatever broadcast_work returned.
\* (RecordBroadcast_mut: the instant is recorded after a success only.)
RecordBroadcast_mut(last, t, ok) == IF ok THEN t ELSE last

RecordBroadcast(last, t, ok) == t

\* The return on the loop's clock.
BroadcastReturnAt(s, oks) ==
  \E ok \in oks :
    /\ BroadcastReturned(s, ok)
    /\ last_broadcast' =
         Upd(last_broadcast, s, RecordBroadcast(last_broadcast[s], loop_now[s], ok))
    /\ broadcasts' =
         Upd(broadcasts, s,
           [broadcasts[s] EXCEPT
              ![Len(broadcasts[s])].ret = IF ok THEN "True" ELSE "False"])
    /\ UNCHANGED <<perf_counter, loop_now>>

\* The loop's clock moves on.
ClockStep ==
  /\ perf_counter < BROADCAST_INTERVAL_MS + MaxClockSteps * ClockStepMs
  /\ perf_counter' = perf_counter + ClockStepMs
  /\ UNCHANGED <<cfgVars, loopVars, gtVars, now, netVars, engineVars,
                 managerVars, rateVars, reply, threads, ledger_call, loop_now,
                 last_broadcast, broadcasts>>

\* Lines 272-282: the poll exceeds remote_timeout_s.
PollTimeout(s) ==
  /\ pc[s] = "poll"
  /\ remote_disabled' = Upd(remote_disabled, s, TRUE)
  /\ log' = Upd(log, s, [NoLog EXCEPT !.event = "timeout"])
  /\ pc' = Upd(pc, s, "loop")
  /\ UNCHANGED <<cfgVars, sideVars, max_tokens, request_id, prompt, generated,
                 tokens_emitted, context, result, accepted, correction, latest,
                 emitted, gtVars, now, netVars, engineVars>>

\* Lines 285-308: the poll returns nothing (empty queue or a failed call).
PollEmpty(s) ==
  /\ pc[s] = "poll"
  /\ \E native_ok \in BOOLEAN :
       IF ~ PITCH_MODE /\ kv_checkpoint_manager /\ latest[s] # <<>>
         THEN LET r == restore_latest(latest[s], cache, native_ok)
              IN /\ cache' = r.cache
                 /\ latest' = Upd(latest, s, r.latest)
                 /\ generated' = Upd(generated, s,
                      IF r.raised THEN generated[s]
                      ELSE latest[s][1].generated_tail)
                 /\ log' = Upd(log, s,
                      IF r.raised
                        THEN [NoLog EXCEPT !.event = "restore_skipped"]
                        ELSE NoLog)
         ELSE /\ UNCHANGED <<cache, generated, latest>>
              /\ log' = Upd(log, s, NoLog)
  /\ pc' = Upd(pc, s, "loop")
  /\ UNCHANGED <<cfgVars, sideVars, max_tokens, request_id, prompt,
                 tokens_emitted, remote_disabled, context, result, accepted,
                 correction, emitted, gtVars, now, netVars, session_eval_pos>>

\* The answer an honest scout gives to the work item it was sent.
RightAnswer(w) ==
  IF w.ctx = NormalContext
    THEN OrdinaryDraftText
    ELSE LET i == CHOOSE j \in TemplateIds :
                    GOLDEN_TICKET_TEMPLATES[j].prompt = w.ctx
         IN  GOLDEN_TICKET_TEMPLATES[i].expected

\* The results /pop-result can hand out: a scout's answer to a work item the
\* sidecar received.  A scout outside HonestScouts may answer anything.
PoppedResults(peers, draftSet, textSet) ==
  { [work_id |-> w.request_id, scout_id |-> p, draft_tokens |-> toks,
     draft_text |-> text, work |-> w.ctx] :
       w \in works, p \in peers, toks \in draftSet,
       text \in textSet \cup {RightAnswer(x) : x \in works} }

HonestResult(r) ==
  r.scout_id \in HonestScouts =>
    r.draft_text = RightAnswer([request_id |-> r.work_id, ctx |-> r.work])

\* Lines 310-340: the ban check and the Golden Ticket check of a popped
\* result r in the session with request id rid: whether the draft is
\* dropped, the record logged (`expired`: is_scout_banned has deleted an
\* expired ban and logged it), and the tables afterwards.
Admit(r, rid) ==
  LET bans1 == purge_expired(banned, r.scout_id, now)
  IN  IF is_scout_banned(banned, r.scout_id, now)
        THEN [drop |-> TRUE, event |-> "banned", expired |-> FALSE,
              tickets |-> active_tickets,
              reputation |-> reputation, banned |-> banned]
      ELSE IF r.draft_text = <<>>
        THEN [drop |-> r.draft_tokens = <<>>, event |-> "",
              expired |-> bans1 # banned,
              tickets |-> active_tickets,
              reputation |-> reputation, banned |-> bans1]
      ELSE
        LET v == verify_response(active_tickets, reputation, bans1, rid,
                                 r.scout_id, r.draft_text,
                                 ban_duration_hours, now)
        IN  [drop |-> (v.verdict = "False") \/ r.draft_tokens = <<>>,
             event |-> CASE v.verdict = "True" -> "ticket_verified"
                         [] v.verdict = "False" -> "ticket_failed"
                         [] OTHER -> "not_a_ticket",
             expired |-> bans1 # banned,
             tickets |-> v.tickets, reputation |-> v.reputation,
             banned |-> v.banned]

\* /pop-result hands out r; an honest scout answers a work item once.
Popped(r) ==
  /\ HonestResult(r)
  /\ r.scout_id \in HonestScouts =>
       /\ <<r.scout_id, r.work_id, r.work>> \notin answered
       /\ answered' = answered \cup {<<r.scout_id, r.work_id, r.work>>}
  /\ r.scout_id \notin HonestScouts => answered' = answered
  /\ UNCHANGED <<works, http>>

\* What the loop still reads of a result once its draft is being verified.
Kept(r) == [scout_id |-> r.scout_id, draft_tokens |-> r.draft_tokens]

\* Lines 310-342 for the popped result r; verdicts are the outcomes
\* verify_draft can return for its draft.
PopResultWith(s, r, verdicts) ==
  /\ pc[s] = "poll"
  /\ Popped(r)
  /\ LET a == Admit(r, request_id[s])
     IN  /\ active_tickets' = a.tickets
         /\ reputation' = a.reputation
         /\ banned' = a.banned
         /\ \E rep_ok, ban_ok \in WriteOutcomes :
              /\ reputation_db' =
                   IF a.reputation # reputation
                     THEN _save_reputation_db(reputation_db, a.reputation,
                                              rep_ok).store
                     ELSE reputation_db
              /\ banned_list' =
                   IF a.banned # banned
                     THEN _save_banned_list(banned_list, a.banned,
                                            ban_ok).store
                     ELSE banned_list
         /\ log' = Upd(log, s, [event |-> a.event, scout |-> r.scout_id,
                                 ban_expired |-> a.expired])
         /\ IF a.drop
              THEN /\ pc' = Upd(pc, s, "loop")
                   /\ UNCHANGED <<result, accepted, correction, cache>>
              ELSE \E v \in verdicts :
                     /\ result' = Upd(result, s, <<Kept(r)>>)
                     /\ accepted' = Upd(accepted, s, v.accepted)
                     /\ correction' = Upd(correction, s, v.correction)
                     /\ cache' = v.cache
                     /\ pc' = Upd(pc, s, "emit")
  /\ UNCHANGED <<cfgVars, sideVars, max_tokens, request_id, prompt, generated,
                 tokens_emitted, remote_disabled, context, latest, emitted,
                 now, session_eval_pos>>

\* A result is popped, with a verify_draft that may return anything.
PopResultAny(s, peers, draftSet, textSet, accSet, corrSet) ==
  \E r \in PoppedResults(peers, draftSet, textSet) :
    PopResultWith(s, r,
      { [accepted |-> acc, correction |-> corr, cache |-> cache] :
          acc \in accSet, corr \in corrSet })

\* A result is popped, with oracle_api._verify_draft on the engine singleton.
PopResult(s, peers, draftSet, textSet) ==
  \E r \in PoppedResults(peers, draftSet, textSet) :
    PopResultWith(s, r,
      { _verify_draft(cache, generated[s], r.draft_tokens, s) })

\* A result is popped and verified on an engine whose shard_eval fails at
\* some call.
PopResultRaising(s, peers, draftSet, textSet) ==
  \E r \in PoppedResults(peers, draftSet, textSet), k \in 0..(MaxDraft - 1) :
    PopResultWith(s, r,
      { _verify_draft_except(cache, generated[s], r.draft_tokens, s, k) })

\* Lines 370-375: one turn of `for tok in accepted`.
EmitAccepted(s) ==
  /\ pc[s] = "emit"
  /\ accepted[s] # <<>>
  /\ IF AcceptedBudgetSpent(s)
       THEN /\ accepted' = Upd(accepted, s, <<>>)
            /\ UNCHANGED <<generated, emitted, tokens_emitted>>
       ELSE /\ Yield(s, Head(accepted[s]), "draft", result[s][1].scout_id)
            /\ accepted' = Upd(accepted, s, Tail(accepted[s]))
  /\ UNCHANGED <<cfgVars, sideVars, pc, max_tokens, request_id, prompt, remote_disabled,
                 context, result, correction, latest, log, gtVars, now,
                 netVars, engineVars>>

\* Lines 377-380: the correction token, then back to the loop head.
EmitCorrection(s) ==
  /\ pc[s] = "emit"
  /\ accepted[s] = <<>>
  /\ IF CorrectionAdmitted(s)
       THEN Yield(s, correction[s], "correction", result[s][1].scout_id)
       ELSE UNCHANGED <<generated, emitted, tokens_emitted>>
  /\ result' = Upd(result, s, <<>>)
  /\ correction' = Upd(correction, s, None)
  /\ pc' = Upd(pc, s, "loop")
  /\ UNCHANGED <<cfgVars, sideVars, max_tokens, request_id, prompt, remote_disabled,
                 context, accepted, latest, log, gtVars, now, netVars,
                 engineVars>>

\* ------------------------------------------------------------ environment
\* Wall-clock time passes.
Tick ==
  /\ now < ClockTicks * TickHours
  /\ now' = now + TickHours
  /\ UNCHANGED <<cfgVars, sideVars, loopVars, gtVars, netVars, engineVars>>

\* GoldenTicketGenerator.unban_scout (admin endpoint).
unban_scout(p) ==
  /\ p \in DOMAIN banned
  /\ banned' = DictDel(banned, p)
  /\ \E write_ok \in WriteOutcomes :
       banned_list' = _save_banned_list(banned_list, banned', write_ok).store
  /\ UNCHANGED <<cfgVars, sideVars, loopVars, active_tickets, reputation,
                 reputation_db, now, netVars, engineVars>>

\* A client method is called and the exchange comes to outcome o.
ClientCall(method, o) ==
  /\ http' = [method |-> method, outcome |-> o, ret |-> ClientReturn(method, o)]
  /\ UNCHANGED <<cfgVars, sideVars, loopVars, gtVars, now, works, answered, engineVars>>

\* The runtime of a manager looked at on its own evaluates one more piece.
RuntimeEval(piece) ==
  /\ Len(cache) < MaxCache
  /\ cache' = eval_text(cache, <<piece>>, 1)
  /\ mgr_call' = NoMgrCall
  /\ UNCHANGED <<cfgVars, loopVars, gtVars, now, netVars, session_eval_pos,
                 import_call, rateVars, timeVars, reply, threads, ledger_call>>

\* manager.maybe_checkpoint(gen, e) on the manager of session 1.
CallMaybeCheckpoint(gen, e, export_ok) ==
  /\ latest' = Upd(latest, 1,
       maybe_checkpoint(latest[1], every_n_tokens, max_generated_tail, gen, e,
                        export_kv_snapshot(cache), export_ok))
  /\ mgr_call' = [NoMgrCall EXCEPT !.op = "maybe_checkpoint",
                                   !.generated = gen,
                                   !.emitted_tokens = e,
                                   !.export_ok = export_ok]
  /\ UNCHANGED <<cfgVars, pc, max_tokens, request_id, prompt, generated,
                 tokens_emitted, remote_disabled, context, result, accepted,
                 correction, emitted, log, gtVars, now, netVars, engineVars,
                 import_call, rateVars, timeVars, reply, threads, ledger_call>>

\* manager.restore_latest() on the manager of session 1.
CallRestoreLatest(native_ok) ==
  /\ LET r == restore_latest(latest[1], cache, native_ok)
     IN /\ cache' = r.cache
        /\ latest' = Upd(latest, 1, r.latest)
        /\ mgr_call' = [NoMgrCall EXCEPT !.op = "restore_latest",
                                         !.found = r.found,
                                         !.raised = r.raised,
                                         !.imported = r.imported]
  /\ UNCHANGED <<cfgVars, pc, max_tokens, request_id, prompt, generated,
                 tokens_emitted, remote_disabled, context, result, accepted,
                 correction, emitted, log, gtVars, now, netVars,
                 session_eval_pos, import_call, rateVars, timeVars, reply, threads, ledger_call>>

\* runtime.import_kv_snapshot(buf) on the engine singleton.
CallImportKvSnapshot(buf, native_ok) ==
  /\ LET r == import_kv_snapshot(buf, cache, native_ok)
     IN /\ cache' = r.cache
        /\ import_call' = [buf |-> buf, raised |-> r.raised,
                           native |-> r.native]
  /\ UNCHANGED <<cfgVars, loopVars, gtVars, now, netVars, session_eval_pos,
                 mgr_call, rateVars, timeVars, reply, threads, ledger_call>>

\* await limiter.check(key): the body runs under the limiter's asyncio lock.
RateCheck(key) ==
  /\ Len(rate_log) < MaxChecks
  /\ LET r == RateLimiter_check(buckets, limit_per_minute, key, seconds)
     IN /\ buckets' = r.buckets
        /\ rate_log' = Append(rate_log,
             [key |-> key, at |-> seconds, allowed |-> r.allowed,
              remaining |-> r.remaining])
  /\ UNCHANGED <<cfgVars, loopVars, gtVars, now, netVars, engineVars,
                 managerVars, timeVars, reply, seconds, threads, ledger_call>>

\* Half a minute passes.
RateTick ==
  /\ seconds < WINDOW_SECONDS * MaxWindow
  /\ seconds' = seconds + (WINDOW_SECONDS \div 2)
  /\ UNCHANGED <<cfgVars, loopVars, gtVars, now, netVars, engineVars,
                 managerVars, timeVars, reply, buckets, rate_log, threads,
                 ledger_call>>

\* maybe_inject_golden_ticket puts a ticket in flight for request rid before
\* any response to it is delivered.
InjectTicket(rid, tpl) ==
  /\ injection_on
  /\ rid \notin DOMAIN active_tickets
  /\ \A th \in Threads : threads[th].pc = "idle"
  /\ active_tickets' = DictPut(active_tickets, rid, tpl)
  /\ UNCHANGED <<cfgVars, loopVars, reputation, banned, storeVars, now,
                 netVars, engineVars, sideVars>>

\* Thread th calls verify_response(rid, peer_id, response).
VerifyResponseCall(th, rid, peer_id, response) ==
  /\ threads[th].pc = "idle"
  /\ threads' = Upd(threads, th,
       [NoThread EXCEPT !.pc = "get", !.request_id = rid,
                        !.scout_peer_id = peer_id,
                        !.scout_response = response])
  /\ UNCHANGED <<cfgVars, loopVars, gtVars, now, netVars, engineVars,
                 managerVars, rateVars, timeVars, reply, ledger_call>>

\* Lines 518-523: under the lock, ticket = _active_tickets.get(request_id);
\* the lock is released; None is returned when there is no ticket.
VerifyResponseGet(th) ==
  /\ threads[th].pc = "get"
  /\ threads' = Upd(threads, th,
       IF threads[th].request_id \in DOMAIN active_tickets
         THEN [threads[th] EXCEPT
                 !.pc = "update",
                 !.ticket = active_tickets[threads[th].request_id]]
         ELSE [threads[th] EXCEPT !.pc = "returned", !.ret = "None"])
  /\ UNCHANGED <<cfgVars, loopVars, gtVars, now, netVars, engineVars,
                 managerVars, rateVars, timeVars, reply, ledger_call>>

\* Lines 526-533: _check_answer on the thread's own ticket, then
\* _update_reputation, which takes the lock for itself; a ban is saved by
\* _ban_scout before the lock is released.
VerifyResponseUpdate(th) ==
  /\ threads[th].pc = "update"
  /\ LET tpl == GOLDEN_TICKET_TEMPLATES[threads[th].ticket]
         is_correct == _check_answer(threads[th].scout_response,
                                     tpl.expected, tpl.type)
         upd == _update_reputation(reputation, banned,
                                   threads[th].scout_peer_id, is_correct,
                                   ban_duration_hours, now)
     IN /\ reputation' = upd.reputation
        /\ banned' = upd.banned
        /\ \E write_ok \in WriteOutcomes :
             banned_list' =
               IF _should_ban(upd.reputation, threads[th].scout_peer_id,
                              DEFAULT_MIN_ATTEMPTS_BEFORE_BAN,
                              DEFAULT_REPUTATION_THRESHOLD_PCT)
                 THEN _save_banned_list(banned_list, upd.banned,
                                        write_ok).store
                 ELSE banned_list
        /\ threads' = Upd(threads, th,
             [threads[th] EXCEPT
                !.pc = "save",
                !.ret = IF is_correct THEN "True" ELSE "False"])
  /\ UNCHANGED <<cfgVars, loopVars, active_tickets, reputation_db, now,
                 netVars, engineVars, managerVars, rateVars, timeVars, reply, ledger_call>>

\* _update_reputation line 606, _save_reputation_db lines 803-807: past the
\* lock of _update_reputation, the table is copied under the lock ...
SaveReputationSnapshot(th) ==
  /\ threads[th].pc = "save"
  /\ threads' = Upd(threads, th,
       [threads[th] EXCEPT !.pc = "write", !.data = reputation])
  /\ UNCHANGED <<cfgVars, loopVars, gtVars, now, netVars, engineVars,
                 managerVars, rateVars, timeVars, reply, ledger_call>>

\* ... and lines 809-810: the copy is written to the file, the lock no
\* longer held.
SaveReputationWrite(th) ==
  /\ threads[th].pc = "write"
  /\ \E write_ok \in WriteOutcomes :
       reputation_db' =
         _save_reputation_db(reputation_db, threads[th].data, write_ok).store
  /\ threads' = Upd(threads, th, [threads[th] EXCEPT !.pc = "pop"])
  /\ UNCHANGED <<cfgVars, loopVars, active_tickets, reputation, banned,
                 banned_list, now, netVars, engineVars, managerVars, rateVars, timeVars, reply,
                 ledger_call>>

\* Lines 536-546: under the lock again, _active_tickets.pop(request_id,
\* None); is_correct is returned.
VerifyResponsePop(th) ==
  /\ threads[th].pc = "pop"
  /\ active_tickets' =
       IF threads[th].request_id \in DOMAIN active_tickets
         THEN DictDel(active_tickets, threads[th].request_id)
         ELSE active_tickets
  /\ threads' = Upd(threads, th, [threads[th] EXCEPT !.pc = "returned"])
  /\ UNCHANGED <<cfgVars, loopVars, reputation, banned, storeVars, now,
                 netVars, engineVars, managerVars, rateVars, timeVars, reply, ledger_call>>

\* The methods of GoldenTicketGenerator that save a table, each called on
\* its own from one thread.  The record of call number n + 1.
LedgerCall(op, peer_id, failed, raised, ret) ==
  [n |-> ledger_call.n + 1, op |-> op, peer_id |-> peer_id,
   failed |-> failed, raised |-> raised, ret |-> ret]

\* A save that is not reached.
NotSaved(store) == [store |-> store, raised |-> FALSE]

\* _update_reputation(peer_id, correct): the attempt, the ban when it is due
\* (saved by _ban_scout), then _save_reputation_db.
CallUpdateReputation(peer_id, correct, ban_ok, rep_ok) ==
  /\ ledger_call.n < MaxOps
  /\ LET upd == _update_reputation(reputation, banned, peer_id, correct,
                                   ban_duration_hours, now)
         ban == _should_ban(upd.reputation, peer_id,
                            DEFAULT_MIN_ATTEMPTS_BEFORE_BAN,
                            DEFAULT_REPUTATION_THRESHOLD_PCT)
         s1 == IF ban THEN _save_banned_list(banned_list, upd.banned, ban_ok)
                      ELSE NotSaved(banned_list)
         s2 == IF s1.raised
                 THEN [store |-> reputation_db, raised |-> TRUE]
                 ELSE _save_reputation_db(reputation_db, upd.reputation,
                                          rep_ok)
     IN /\ reputation' = upd.reputation
        /\ banned' = upd.banned
        /\ banned_list' = s1.store
        /\ reputation_db' = s2.store
        /\ ledger_call' = LedgerCall("_update_reputation", peer_id,
                                     (ban /\ ~ ban_ok) \/ ~ rep_ok,
                                     s2.raised, FALSE)
  /\ UNCHANGED <<cfgVars, loopVars, active_tickets, now, netVars, engineVars,
                 managerVars, rateVars, timeVars, reply, threads>>

\* _ban_scout(peer_id).
CallBanScout(peer_id, write_ok) ==
  /\ ledger_call.n < MaxOps
  /\ banned' = _ban_scout(banned, reputation, peer_id, ban_duration_hours,
                          now)
  /\ LET s1 == _save_banned_list(banned_list, banned', write_ok)
     IN /\ banned_list' = s1.store
        /\ ledger_call' = LedgerCall("_ban_scout", peer_id, ~ write_ok,
                                     s1.raised, FALSE)
  /\ UNCHANGED <<cfgVars, loopVars, active_tickets, reputation,
                 reputation_db, now, netVars, engineVars, managerVars,
                 rateVars, timeVars, reply, threads>>

\* unban_scout(peer_id): True when there was an entry to delete.
CallUnbanScout(peer_id, write_ok) ==
  /\ ledger_call.n < MaxOps
  /\ LET found == peer_id \in DOMAIN banned
         bans2 == IF found THEN DictDel(banned, peer_id) ELSE banned
         s1 == IF found THEN _save_banned_list(banned_list, bans2, write_ok)
                        ELSE NotSaved(banned_list)
     IN /\ banned' = bans2
        /\ banned_list' = s1.store
        /\ ledger_call' = LedgerCall("unban_scout", peer_id,
                                     found /\ ~ write_ok, s1.raised, found)
  /\ UNCHANGED <<cfgVars, loopVars, active_tickets, reputation,
                 reputation_db, now, netVars, engineVars, managerVars,
                 rateVars, timeVars, reply, threads>>

\* reset_reputation(peer_id): True when the peer had an entry.
CallResetReputation(peer_id, write_ok) ==
  /\ ledger_call.n < MaxOps
  /\ LET found == peer_id \in DOMAIN reputation
         s1 == IF found
                 THEN _save_reputation_db(reputation_db,
                        reset_reputation(reputation, peer_id), write_ok)
                 ELSE NotSaved(reputation_db)
     IN /\ reputation' = reset_reputation(reputation, peer_id)
        /\ reputation_db' = s1.store
        /\ ledger_call' = LedgerCall("reset_reputation", peer_id,
                                     found /\ ~ write_ok, s1.raised, found)
  /\ UNCHANGED <<cfgVars, loopVars, active_tickets, banned, banned_list, now,
                 netVars, engineVars, managerVars, rateVars, timeVars, reply, threads>>

\* is_scout_banned(peer_id): an expired entry is deleted and the table
\* saved.
CallIsScoutBanned(peer_id, write_ok) ==
  /\ ledger_call.n < MaxOps
  /\ LET bans2 == purge_expired(banned, peer_id, now)
         s1 == IF bans2 # banned
                 THEN _save_banned_list(banned_list, bans2, write_ok)
                 ELSE NotSaved(banned_list)
     IN /\ banned' = bans2
        /\ banned_list' = s1.store
        /\ ledger_call' = LedgerCall("is_scout_banned", peer_id,
                                     bans2 # banned /\ ~ write_ok, s1.raised,
                                     is_scout_banned(banned, peer_id, now))
  /\ UNCHANGED <<cfgVars, loopVars, active_tickets, reputation,
                 reputation_db, now, netVars, engineVars, managerVars,
                 rateVars, timeVars, reply, threads>>

\* --------------------------------------------------------- specifications
\* Spec: one request, any local model and any verify_draft, Golden Ticket
\* injection switched off (SHARD_GOLDEN_TICKET_RATE = 0).
AnyPieces == {"a", "b"}
SpecDrafts == {<<>>, <<"a", "b">>}
SpecTexts == {<<>>, <<"5">>}

Init ==
  /\ PITCH_MODE \in BOOLEAN
  /\ kv_checkpoint_manager \in BOOLEAN
  /\ every_n_tokens = 2
  /\ max_generated_tail = DEFAULT_MAX_GENERATED_TAIL
  /\ limit_per_minute = DEFAULT_RATE_LIMIT_PER_MINUTE
  /\ ban_duration_hours = DEFAULT_BAN_DURATION_HOURS
  /\ injection_on = FALSE
  /\ store_fails = FALSE
  /\ InitSessions
  /\ InitGlobals

LoopStep(s) ==
  \/ Finish(s)
  \/ LocalStepAny(s, AnyPieces)
  \/ Throttle(s)
  \/ BroadcastReturn(s, BOOLEAN)
  \/ PollTimeout(s)
  \/ PollEmpty(s)
  \/ PopResultAny(s, Peers, SpecDrafts, SpecTexts,
                  SeqsUpTo(AnyPieces, MaxDraft), AnyPieces \cup {None})
  \/ EmitAccepted(s)
  \/ EmitCorrection(s)

Next ==
  \/ StartRequest(1, 1..MaxTokens, {<<"a">>})
  \/ LoopStep(1)

Spec == Init /\ [][Next]_vars

\* LedgerSpec: one request with Golden Tickets on, a scout that may answer
\* anything, the clock and the admin unban; the request is long
\* enough for a scout to reach min_attempts_before_ban verdicts and send one
\* more draft.  verify_draft accepts the one-token draft or nothing.
LedgerPieces == {"a"}
LedgerDrafts == {<<>>, <<"a">>}
LedgerBudget == DEFAULT_MIN_ATTEMPTS_BEFORE_BAN + 1

LedgerInit ==
  /\ PITCH_MODE = FALSE
  /\ kv_checkpoint_manager = FALSE
  /\ every_n_tokens = DEFAULT_EVERY_N_TOKENS
  /\ max_generated_tail = DEFAULT_MAX_GENERATED_TAIL
  /\ limit_per_minute = DEFAULT_RATE_LIMIT_PER_MINUTE
  /\ ban_duration_hours \in {0, DEFAULT_BAN_DURATION_HOURS}
  /\ injection_on = TRUE
  /\ store_fails = FALSE
  /\ InitSessions
  /\ InitGlobals

LedgerLoopStep(s, peers) ==
  \/ Finish(s)
  \/ LocalStepAny(s, LedgerPieces)
  \/ Throttle(s)
  \/ BroadcastReturn(s, BOOLEAN)
  \/ PollTimeout(s)
  \/ PollEmpty(s)
  \/ PopResultAny(s, peers, LedgerDrafts, ResponseTexts, LedgerDrafts, {None})
  \/ EmitAccepted(s)
  \/ EmitCorrection(s)

LedgerNext ==
  \/ StartRequest(1, {LedgerBudget}, {<<"a">>})
  \/ LedgerLoopStep(1, OtherScouts)
  \/ Tick
  \/ \E p \in Peers : unban_scout(p)

LedgerSpec == LedgerInit /\ [][LedgerNext]_vars

\* HonestSpec: the same request served by a scout that gives the right
\* answer to each work item it was sent, once.
HonestNext ==
  \/ StartRequest(1, {LedgerBudget}, {<<"a">>})
  \/ LedgerLoopStep(1, HonestScouts)
  \/ Tick
  \/ \E p \in Peers : unban_scout(p)

HonestSpec == LedgerInit /\ [][HonestNext]_vars

\* DeadSpec: the sidecar is unreachable: broadcast_work returns False and
\* try_pop_result returns None or runs into the timeout.  The event loop
\* resumes the generator after every await and the consumer keeps pulling.
DeadInit ==
  /\ PITCH_MODE \in BOOLEAN
  /\ kv_checkpoint_manager \in BOOLEAN
  /\ every_n_tokens = 2
  /\ max_generated_tail = DEFAULT_MAX_GENERATED_TAIL
  /\ limit_per_minute = DEFAULT_RATE_LIMIT_PER_MINUTE
  /\ ban_duration_hours = DEFAULT_BAN_DURATION_HOURS
  /\ injection_on \in BOOLEAN
  /\ store_fails = FALSE
  /\ InitSessions
  /\ InitGlobals

DeadLoopStep(s) ==
  \/ Finish(s)
  \/ LocalStepAny(s, AnyPieces)
  \/ Throttle(s)
  \/ BroadcastReturn(s, {FALSE})
  \/ PollTimeout(s)
  \/ PollEmpty(s)

DeadNext ==
  \/ StartRequest(1, 1..MaxTokens, {<<"a">>})
  \/ DeadLoopStep(1)

DeadSpec == DeadInit /\ [][DeadNext]_vars /\ WF_vars(DeadLoopStep(1))

\* FairSpec: a request with a live sidecar under the same scheduling
\* guarantee; the local model and verify_draft return the piece "a", a run
\* of it, or None.
FairPieces == {"a"}
FairDrafts == {<<>>, <<"a", "a">>}

FairLoopStep(s) ==
  \/ Finish(s)
  \/ LocalStepAny(s, FairPieces)
  \/ Throttle(s)
  \/ BroadcastReturn(s, BOOLEAN)
  \/ PollTimeout(s)
  \/ PollEmpty(s)
  \/ PopResultAny(s, Peers, FairDrafts, SpecTexts,
                  SeqsUpTo(FairPieces, MaxDraft), FairPieces \cup {None})
  \/ EmitAccepted(s)
  \/ EmitCorrection(s)

FairNext ==
  \/ StartRequest(1, 1..MaxTokens, {<<"a">>})
  \/ FairLoopStep(1)

FairSpec == Init /\ [][FairNext]_vars /\ WF_vars(FairLoopStep(1))

\* EngineSpec: one request served by the engine singleton through
\* _local_generate and _verify_draft, Golden Ticket injection switched off.
EngineInit ==
  /\ PITCH_MODE = FALSE
  /\ kv_checkpoint_manager = FALSE
  /\ every_n_tokens = DEFAULT_EVERY_N_TOKENS
  /\ max_generated_tail = DEFAULT_MAX_GENERATED_TAIL
  /\ limit_per_minute = DEFAULT_RATE_LIMIT_PER_MINUTE
  /\ ban_duration_hours = DEFAULT_BAN_DURATION_HOURS
  /\ injection_on = FALSE
  /\ store_fails = FALSE
  /\ InitSessions
  /\ InitGlobals

EngineLoopStep(s) ==
  \/ Finish(s)
  \/ LocalStep(s)
  \/ Throttle(s)
  \/ BroadcastReturn(s, BOOLEAN)
  \/ PollTimeout(s)
  \/ PollEmpty(s)
  \/ PopResult(s, Peers, Drafts, {<<>>})
  \/ EmitAccepted(s)
  \/ EmitCorrection(s)

EngineNext ==
  \/ StartRequest(1, 1..MaxTokens, Prompts)
  \/ EngineLoopStep(1)

EngineSpec == EngineInit /\ [][EngineNext]_vars

\* ConcSpec: two chat requests in the same API process, interleaved at the
\* generator's suspension points.
ConcDrafts == {<<>>, <<"a">>}
ConcBudget == 2

ConcLoopStep(s) ==
  \/ Finish(s)
  \/ LocalStep(s)
  \/ Throttle(s)
  \/ BroadcastReturn(s, BOOLEAN)
  \/ PollTimeout(s)
  \/ PollEmpty(s)
  \/ PopResult(s, {"scoutB"}, ConcDrafts, {<<>>})
  \/ EmitAccepted(s)
  \/ EmitCorrection(s)

ConcNext ==
  \E s \in Sessions :
    \/ StartRequest(s, {ConcBudget}, Prompts)
    \/ ConcLoopStep(s)

ConcSpec == EngineInit /\ [][ConcNext]_vars

\* CkptSpec: one request with a KvCheckpointManager attached, a local model
\* that is a function of `generated`, and a sidecar that has no result to
\* hand out.  The request is long enough for a token to follow a restore of
\* a checkpoint that is older than `generated`.
CkptBudget == MaxTokens + 1

CkptInit ==
  /\ PITCH_MODE = FALSE
  /\ kv_checkpoint_manager = TRUE
  /\ every_n_tokens \in {0, 1, 2}
  /\ max_generated_tail = DEFAULT_MAX_GENERATED_TAIL
  /\ limit_per_minute = DEFAULT_RATE_LIMIT_PER_MINUTE
  /\ ban_duration_hours = DEFAULT_BAN_DURATION_HOURS
  /\ injection_on = FALSE
  /\ store_fails = FALSE
  /\ InitSessions
  /\ InitGlobals

CkptLoopStep(s) ==
  \/ Finish(s)
  \/ LocalStepModel(s)
  \/ Throttle(s)
  \/ BroadcastReturn(s, BOOLEAN)
  \/ PollEmpty(s)

CkptNext ==
  \/ StartRequest(1, 1..CkptBudget, Prompts)
  \/ CkptLoopStep(1)

CkptSpec == CkptInit /\ [][CkptNext]_vars

\* ClientSpec: the four methods of RustControlPlaneClient, each called with
\* every outcome of its HTTP exchange.
ClientNext ==
  \E method \in ClientMethods, o \in HttpOutcomes : ClientCall(method, o)

ClientSpec == EngineInit /\ [][ClientNext]_vars

\* ManagerSpec: a KvCheckpointManager on its own, as the unit tests drive
\* it: the runtime's cache changes, maybe_checkpoint is called with lists
\* shorter and longer than the tail it may keep, restore_latest is called at
\* any time.
TailStream(k) ==
  [i \in 1..k |-> shard_token_to_piece(i % Cardinality(Pieces))]
ManagerLists ==
  { TailStream(k) : k \in {1, CHECKPOINT_TAIL_FLOOR, CHECKPOINT_TAIL_FLOOR + 1,
                           CHECKPOINT_TAIL_FLOOR + 2} }
ManagerTails == {0, CHECKPOINT_TAIL_FLOOR + 1}

ManagerInit ==
  /\ PITCH_MODE = FALSE
  /\ kv_checkpoint_manager = TRUE
  /\ every_n_tokens \in {1, 2}
  /\ max_generated_tail \in ManagerTails
  /\ limit_per_minute = DEFAULT_RATE_LIMIT_PER_MINUTE
  /\ ban_duration_hours = DEFAULT_BAN_DURATION_HOURS
  /\ injection_on = FALSE
  /\ store_fails = FALSE
  /\ InitSessions
  /\ InitGlobals

ManagerNext ==
  \/ \E piece \in AnyPieces : RuntimeEval(piece)
  \/ \E gen \in ManagerLists, e \in 0..MaxTokens, export_ok \in BOOLEAN :
       CallMaybeCheckpoint(gen, e, export_ok)
  \/ \E native_ok \in BOOLEAN : CallRestoreLatest(native_ok)

ManagerSpec == ManagerInit /\ [][ManagerNext]_vars

\* SnapshotSpec: import_kv_snapshot called with buffers whose header fields
\* and payload are right or wrong in every combination.
SnapshotBodies ==
  UNION { [1..k -> {[tok |-> TokenId(q), by |-> 1] : q \in AnyPieces}] :
          k \in 0..MaxCache }
SnapshotBuffers ==
  [magic : {SNAPSHOT_MAGIC, 123},
   version : {SNAPSHOT_VERSION, SNAPSHOT_VERSION + 1},
   n_past : {0},
   payload_len : 0..MaxCache,
   body : SnapshotBodies]

SnapshotNext ==
  \E buf \in SnapshotBuffers, native_ok \in BOOLEAN :
    CallImportKvSnapshot(buf, native_ok)

SnapshotSpec == EngineInit /\ [][SnapshotNext]_vars

\* RateSpec: one RateLimiter, two client keys and a clock that moves by half
\* a window.
RateKeys == {"10.0.0.1", "10.0.0.2"}

RateInit ==
  /\ PITCH_MODE = FALSE
  /\ kv_checkpoint_manager = FALSE
  /\ every_n_tokens = DEFAULT_EVERY_N_TOKENS
  /\ max_generated_tail = DEFAULT_MAX_GENERATED_TAIL
  /\ limit_per_minute \in {0, 1, 2}
  /\ ban_duration_hours = DEFAULT_BAN_DURATION_HOURS
  /\ injection_on = FALSE
  /\ store_fails = FALSE
  /\ InitSessions
  /\ InitGlobals

RateNext ==
  \/ \E key \in RateKeys : RateCheck(key)
  \/ RateTick

RateSpec == RateInit /\ [][RateNext]_vars

\* ThreadSpec: one Golden Ticket in flight and two threads that each
\* deliver one response to it through verify_response; a thread runs from
\* one release of the generator's lock to the next.
ThreadStep(th) ==
  \/ VerifyResponseGet(th)
  \/ VerifyResponseUpdate(th)
  \/ SaveReputationSnapshot(th)
  \/ SaveReputationWrite(th)
  \/ VerifyResponsePop(th)

ThreadNext ==
  \/ \E tpl \in TemplateIds : InjectTicket(1, tpl)
  \/ \E th \in Threads, peer_id \in Peers, response \in ResponseTexts :
       VerifyResponseCall(th, 1, peer_id, response)
  \/ \E th \in Threads : ThreadStep(th)

ThreadSpec == LedgerInit /\ [][ThreadNext]_vars

\* VerdictSpec: the request of LedgerSpec at one instant: no ban runs out
\* and none is lifted by hand.
VerdictNext ==
  \/ StartRequest(1, {LedgerBudget}, {<<"a">>})
  \/ LedgerLoopStep(1, OtherScouts)

VerdictSpec == LedgerInit /\ [][VerdictNext]_vars

\* SaveSpec: two Golden Tickets in flight for two requests, and two threads
\* of which each delivers the response to one of them.
SaveTexts == {<<"4">>, <<"5">>}

SaveNext ==
  \/ \E rid \in Sessions : InjectTicket(rid, 1)
  \/ \E th \in Threads, peer_id \in Peers, response \in SaveTexts :
       VerifyResponseCall(th, th, peer_id, response)
  \/ \E th \in Threads : ThreadStep(th)

SaveSpec == LedgerInit /\ [][SaveNext]_vars

\* StoreSpec: the ledger's saving methods called one after another, on a
\* data directory that may refuse any write, with a ticket in flight.
StoreInit ==
  /\ PITCH_MODE = FALSE
  /\ kv_checkpoint_manager = FALSE
  /\ every_n_tokens = DEFAULT_EVERY_N_TOKENS
  /\ max_generated_tail = DEFAULT_MAX_GENERATED_TAIL
  /\ limit_per_minute = DEFAULT_RATE_LIMIT_PER_MINUTE
  /\ ban_duration_hours \in {0, DEFAULT_BAN_DURATION_HOURS}
  /\ injection_on = TRUE
  /\ store_fails = TRUE
  /\ InitSessions
  /\ InitGlobals

StoreNext ==
  \/ InjectTicket(1, 1)
  \/ \E peer_id \in Peers, write_ok \in WriteOutcomes :
       \/ \E correct \in BOOLEAN, ban_ok \in WriteOutcomes :
            CallUpdateReputation(peer_id, correct, ban_ok, write_ok)
       \/ CallBanScout(peer_id, write_ok)
       \/ CallUnbanScout(peer_id, write_ok)
       \/ CallResetReputation(peer_id, write_ok)
       \/ CallIsScoutBanned(peer_id, write_ok)

StoreSpec == StoreInit /\ [][StoreNext]_vars

\* TimedSpec: one request on the loop's clock, with a sidecar that takes or
\* refuses each broadcast and has no result to hand out.
TimedLoopStep(s) ==
  \/ Finish(s)
  \/ LocalStepAny(s, LedgerPieces)
  \/ ThrottleAt(s)
  \/ BroadcastReturnAt(s, BOOLEAN)
  \/ PollTimeout(s)
  \/ PollEmpty(s)

TimedNext ==
  \/ StartRequest(1, 1..MaxTokens, {<<"a">>})
  \/ TimedLoopStep(1)
  \/ ClockStep

TimedSpec == EngineInit /\ [][TimedNext]_vars

\* FaultSpec: one request served by the engine singleton, whose shard_eval
\* may fail at any call, and the endpoint's answer over either path.
FaultDrafts == {<<>>, <<"a">>, <<"a", "b">>, <<"c", "a">>}

FaultLoopStep(s) ==
  \/ Finish(s)
  \/ LocalStep(s)
  \/ LocalStepRaises(s)
  \/ Throttle(s)
  \/ BroadcastReturn(s, BOOLEAN)
  \/ PollTimeout(s)
  \/ PollEmpty(s)
  \/ PopResult(s, Peers, FaultDrafts, {<<>>})
  \/ PopResultRaising(s, Peers, FaultDrafts, {<<>>})
  \/ EmitAccepted(s)
  \/ EmitCorrection(s)

FaultNext ==
  \/ StartRequest(1, 1..MaxTokens, Prompts)
  \/ FaultLoopStep(1)
  \/ \E stream \in BOOLEAN : ChatReply(1, stream)

FaultSpec == EngineInit /\ [][FaultNext]_vars

\* -------------------------------------------------------------- properties
\* The last token of a stream, and the step that yields one.
LastOrigin(stream) == stream[Len(stream)].origin
LastScout(stream) == stream[Len(stream)].scout
Emits(s) == Len(emitted'[s]) > Len(emitted[s])

\* The engine's argmax for the prompt followed by the first n tokens of the
\* stream, on a cache of its own.
StreamIds(stream, n) == [i \in 1..n |-> TokenId(stream[i].tok)]
ArgmaxAfter(prompt_text, stream, n) ==
  generate_next_token(
    shard_eval(<<>>, encode_text(prompt_text) \o StreamIds(stream, n), 0))

\* The default ban duration is configured; peer p has failed all of its n
\* Golden Tickets; p's ban entry is less than 24 h old; the step hands a
\* popped draft to verify_draft.
DefaultConfig == ban_duration_hours = 24
FailedAll(reps, p, n) ==
  p \in DOMAIN reps /\ reps[p].golden_correct = 0 /\ reps[p].golden_attempts = n
BanRunning(p) ==
  p \in DOMAIN banned /\ now - banned[p].banned_at < 24
Admitted(s) == pc[s] = "poll" /\ pc'[s] = "emit"

\* The step records one more Golden Ticket attempt for p; the reputation r
\* calls for a ban (attempts >= 3 and correct/attempts < 0.70).
Updated(p) ==
  /\ p \in DOMAIN reputation'
  /\ reputation'[p].golden_attempts =
       (IF p \in DOMAIN reputation THEN reputation[p].golden_attempts ELSE 0) + 1
BanDue(r) ==
  r.golden_attempts >= 3 /\ r.golden_correct * 10 < 7 * r.golden_attempts

\* The step is a local step or a draft verification of session s.
EngineOp(s) ==
  \/ pc[s] = "loop" /\ pc'[s] \in {"throttle", "eos"}
  \/ pc[s] = "poll" /\ pc'[s] = "emit"

\* C1: the number of tokens yielded by cooperative_generate never exceeds
\* max_tokens, whatever the local model, the control plane and verify_draft
\* return.
C1_BudgetRespected == \A s \in Sessions : Len(emitted[s]) <= max_tokens[s]

\* An accepted draft still has tokens pending when the budget is reached.
C1_Witness ==
  \E s \in Sessions :
    /\ pc[s] = "emit"
    /\ accepted[s] # <<>>
    /\ Len(emitted[s]) = max_tokens[s]
    /\ \E i \in DOMAIN emitted[s] : emitted[s][i].origin = "draft"

\* C2: with _local_generate and verify_prefix on the shard ABI, every
\* emitted token is the engine's argmax for the prompt followed by all the
\* tokens emitted before it.
C2_StreamIsPureArgmax ==
  \A s \in Sessions :
    \A i \in DOMAIN emitted[s] :
      emitted[s][i].tok = ArgmaxAfter(prompt[s], emitted[s], i - 1)

\* C3: when a token that comes from a scout's draft is emitted, that scout is
\* not actively banned.
C3_NoTokenFromBannedScout ==
  [][\A s \in Sessions :
       (Emits(s) /\ LastOrigin(emitted'[s]) = "draft")
         => ~ is_scout_banned(banned, LastScout(emitted'[s]), now)]_vars

\* C4: with every control-plane call failing, the request terminates, having
\* emitted exactly max_tokens local tokens unless the local model returned
\* None.
C4_DeadSidecarTerminates ==
  /\ [](pc[1] = "done" => Len(emitted[1]) = max_tokens[1])
  /\ [](\A i \in DOMAIN emitted[1] : emitted[1][i].origin = "local")
  /\ ((pc[1] # "idle") ~> (pc[1] \in {"done", "eos"}))

\* A request with the full budget has ended without any work item having
\* reached the sidecar.
C4_Witness ==
  /\ pc[1] = "done"
  /\ max_tokens[1] = MaxTokens
  /\ Len(emitted[1]) = MaxTokens
  /\ works = {}

\* C5: once a poll has timed out, remote_disabled stays true, no poll is
\* issued and no draft token is emitted any more, and local tokens go on
\* until max_tokens is reached or the local model returns None.
C5_TimeoutDegrades ==
  /\ [][\A s \in Sessions : remote_disabled[s] => remote_disabled'[s]]_vars
  /\ [](\A s \in Sessions : remote_disabled[s] => pc[s] \notin {"poll", "emit"})
  /\ [][\A s \in Sessions :
          (remote_disabled[s] /\ Emits(s)) => LastOrigin(emitted'[s]) = "local"]_vars
  /\ (remote_disabled[1] ~>
        (pc[1] = "eos" \/ (pc[1] = "done" /\ Len(emitted[1]) = max_tokens[1])))

\* After a timeout the request went on to its full budget, with a draft
\* token emitted before the timeout.
C5_Witness ==
  /\ remote_disabled[1]
  /\ pc[1] = "done"
  /\ Len(emitted[1]) = MaxTokens
  /\ emitted[1][2].origin = "draft"
  /\ emitted[1][MaxTokens].origin = "local"

\* C6: a scout that always gives the right answer to the work item it was
\* sent is never banned.
C6_HonestNeverBanned == \A p \in HonestScouts : p \notin DOMAIN banned

\* The parts of C7: no ban after the first and the second failed ticket ...
C7_NotBeforeThird ==
  DefaultConfig =>
    \A p \in Peers :
      (FailedAll(reputation, p, 1) \/ FailedAll(reputation, p, 2))
        => p \notin DOMAIN banned
\* ... the third failure creates the ban, and is_scout_banned is true,
C7_BannedAtThird ==
  DefaultConfig =>
    \A p \in Peers :
      (FailedAll(reputation, p, 2) /\ FailedAll(reputation', p, 3))
        => /\ p \in DOMAIN banned'
           /\ banned'[p].banned_at = now
           /\ banned'[p].ban_duration_hours = 24
           /\ is_scout_banned(banned', p, now)
\* ... and no draft of such a scout reaches verify_draft afterwards,
C7_LaterDraftDropped ==
  DefaultConfig =>
    \A s \in Sessions :
      Admitted(s) =>
        ~ \E n \in 3..(MaxTokens + 3) :
            FailedAll(reputation', result'[s][1].scout_id, n)
\* or none while its ban entry is in place and less than 24 h old.
C7_LaterDraftDroppedWhileBanned ==
  DefaultConfig =>
    \A s \in Sessions :
      (Admitted(s) /\ BanRunning(result'[s][1].scout_id))
        => ~ \E n \in 3..(MaxTokens + 3) :
               FailedAll(reputation', result'[s][1].scout_id, n)

\* C7 (as stated): with the default configuration a scout whose ticket
\* responses are all incorrect is not banned after one or two failures, is
\* banned right after the third, and every later draft from it is dropped.
C7_AsStated ==
  /\ []C7_NotBeforeThird
  /\ [][C7_BannedAtThird]_vars
  /\ [][C7_LaterDraftDropped]_vars

\* C7 (amended): with the default configuration a scout whose ticket
\* responses are all incorrect is not banned after one or two failures, is
\* banned right after the third, and every later draft from it that is
\* popped while the ban is in force (less than 24 h after the ban, no
\* unban_scout) is dropped.
C7_BanAfterThirdFailure ==
  /\ []C7_NotBeforeThird
  /\ [][C7_BannedAtThird]_vars
  /\ [][C7_LaterDraftDroppedWhileBanned]_vars

\* A draft of a scout with three failed tickets has just been dropped
\* because of its ban.
C7_Witness ==
  /\ DefaultConfig
  /\ \E p \in Peers :
       /\ FailedAll(reputation, p, 3)
       /\ BanRunning(p)
       /\ log[1] = [event |-> "banned", scout |-> p, ban_expired |-> FALSE]

\* C8: a reputation update creates a ban entry for the peer exactly when
\* attempts >= min_attempts_before_ban and correct/attempts < threshold,
\* with failed_attempts = attempts - correct; an update that leaves the peer
\* below that creates no entry.
C8_BanExactlyWhenDue ==
  [][\A p \in Peers :
       Updated(p) =>
         IF BanDue(reputation'[p])
           THEN /\ p \in DOMAIN banned'
                /\ banned'[p] =
                     [banned_at |-> now,
                      ban_duration_hours |-> ban_duration_hours,
                      failed_attempts |->
                        reputation'[p].golden_attempts - reputation'[p].golden_correct]
           ELSE p \in DOMAIN banned' =>
                  (p \in DOMAIN banned /\ banned'[p] = banned[p])]_vars

\* A ban created by an update that did not fail every ticket.
C8_Witness ==
  \E p \in DOMAIN banned :
    /\ reputation[p].golden_correct = 1
    /\ reputation[p].golden_attempts = 3
    /\ banned[p].failed_attempts = 2
    /\ banned[p].banned_at = now

\* C9: a ban created with ban_duration_hours = 0 is permanent: as long as
\* the entry has not been removed by unban_scout, is_scout_banned is true.
C9_ZeroDurationIsPermanent ==
  /\ [](\A p \in DOMAIN banned :
          banned[p].ban_duration_hours = 0 => is_scout_banned(banned, p, now))
  /\ [][\A p \in DOMAIN banned :
          (banned[p].ban_duration_hours = 0 /\ p \notin DOMAIN banned')
            => \E q \in Peers : unban_scout(q)]_vars

\* C10: with two chat requests running concurrently, no session's local step
\* or draft verification reads or changes an engine cache that holds the
\* context of the other, still running, session.
C10_CacheNotShared ==
  [][\A s \in Sessions :
       EngineOp(s) =>
         \A i \in DOMAIN cache : cache[i].by = s \/ cache[i].by \notin Alive]_vars

\* C11: with a checkpoint manager attached and every poll returning no
\* result, the emitted stream is the one the same local model gives without a
\* checkpoint manager (each local step's token once, none repeated by a
\* restore).
C11_RestoreKeepsStream ==
  \A s \in Sessions :
    [i \in DOMAIN emitted[s] |-> emitted[s][i].tok]
      = PlainDecode(prompt[s], Len(emitted[s]))

\* No work item of session s has reached the sidecar: whatever s pops was
\* produced for another request.
NoOwnWork(s) == \A w \in works : w.request_id # request_id[s]

\* C12: a popped result whose work_id is not the session's request_id puts
\* no token in the session's stream and causes no Golden Ticket verification
\* and no reputation update.
C12_ForeignResultIgnored ==
  /\ [][\A s \in Sessions :
          (Emits(s) /\ LastOrigin(emitted'[s]) # "local") => ~ NoOwnWork(s)]_vars
  /\ [][\A s \in Sessions :
          (pc[s] = "poll" /\ NoOwnWork(s))
            => (active_tickets' = active_tickets /\ reputation' = reputation)]_vars

\* C13: a draft reaches verify_draft only after the ban check and the Golden
\* Ticket check have both been made on it: its scout is not banned,
\* verify_golden_ticket has been called for it, and a verdict of False keeps
\* it from verify_draft.
C13_CheckedBeforeVerify ==
  /\ [][\A s \in Sessions :
          Admitted(s) =>
            /\ ~ is_scout_banned(banned, result'[s][1].scout_id, now)
            /\ log'[s].event \in {"ticket_verified", "not_a_ticket"}]_vars
  /\ [][\A s \in Sessions :
          (pc[s] = "poll" /\ log'[s].event = "ticket_failed")
            => pc'[s] # "emit"]_vars

\* The poll of session s ends with a Golden Ticket verdict; with the answer
\* "not a ticket".
Verdict(s) ==
  pc[s] = "poll" /\ log'[s].event \in {"ticket_verified", "ticket_failed"}
NotATicket(s) == pc[s] = "poll" /\ log'[s].event = "not_a_ticket"

\* The request ids in use.
RequestIds == {request_id[s] : s \in Started}

\* C14: a ticket is in _active_tickets from its injection until its first
\* verification: once verify_response has returned True or False for a
\* request id no ticket is left for that id, and another verify_response for
\* the same id returns None and leaves the reputations as they are.
C14_TicketVerifiedOnce ==
  /\ [](DOMAIN active_tickets \subseteq RequestIds)
  /\ [][\A s \in Sessions :
          Verdict(s) =>
            /\ request_id[s] \in DOMAIN active_tickets
            /\ request_id[s] \notin DOMAIN active_tickets'
            /\ \A p \in Peers, resp \in ResponseTexts :
                 LET again == verify_response(active_tickets', reputation',
                                banned', request_id[s], p, resp,
                                ban_duration_hours, now)
                 IN  again.verdict = "None" /\ again.reputation = reputation']_vars

\* A scout with one verdict on record has sent another response for the same
\* request and got "not a ticket".
C14_Witness ==
  \E p \in Peers :
    /\ p \in DOMAIN reputation
    /\ reputation[p].golden_attempts = 1
    /\ log[1].event = "not_a_ticket"
    /\ log[1].scout = p
    /\ request_id[1] \notin DOMAIN active_tickets

\* C15: verify_response for a request id without a ticket in flight returns
\* None and leaves the tickets in flight, every reputation and the ban table
\* as they are.
C15_UnknownTicketIsNoop ==
  /\ [](\A rid \in (RequestIds \cup {0}) \ DOMAIN active_tickets :
          \A p \in Peers, resp \in ResponseTexts :
            verify_response(active_tickets, reputation, banned, rid, p, resp,
                            ban_duration_hours, now)
              = [verdict |-> "None", tickets |-> active_tickets,
                 reputation |-> reputation, banned |-> banned])
  /\ [][\A s \in Sessions :
          NotATicket(s) =>
            /\ active_tickets' = active_tickets
            /\ reputation' = reputation
            /\ banned' = purge_expired(banned, log'[s].scout, now)]_vars

\* A response has been answered with "not a ticket" while the request had a
\* scout with a reputation on record and no ticket in flight.
C15_Witness ==
  /\ log[1].event = "not_a_ticket"
  /\ log[1].scout \in DOMAIN reputation
  /\ reputation[log[1].scout].golden_attempts = 2
  /\ active_tickets = EmptyDict
  /\ pc[1] = "emit"

\* C16: when a session in which every poll returned nothing finishes, the
\* reputation and ban tables are as they were and no Golden Ticket of the
\* session's request id is in flight.
C16_QuietSessionLeavesNothing ==
  \A s \in Sessions :
    (pc[s] = "done" /\ ~ remote_disabled[s])
      => /\ reputation = EmptyDict
         /\ banned = EmptyDict
         /\ request_id[s] \notin DOMAIN active_tickets

\* The exchange failed: no response, or a status outside 2xx.
FailedExchange(o) == o.kind # "response" \/ o.status \notin 200..299

\* C17: broadcast_work, try_pop_result, submit_draft_result and health issue
\* one HTTP request each, answer every I/O error, timeout and non-success
\* status with False or None, and raise nothing to the caller.
C17_ClientNeverRaises ==
  http.method # "" =>
    /\ http.ret.raised = ""
    /\ http.ret.requests = 1
    /\ FailedExchange(http.outcome) => http.ret.value \in {"False", "None"}

\* try_pop_result has run into a read timeout and returned None.
C17_Witness ==
  /\ http.method = "try_pop_result"
  /\ http.outcome.kind = "ReadTimeout"
  /\ http.ret.value = "None"
  /\ http.ret.raised = ""

\* C18: when local_model_generate returns None the generator ends at once:
\* no token is emitted, and nothing is broadcast or polled afterwards.
C18_NoneEndsRequest ==
  /\ [][\A s \in Sessions :
          (pc[s] = "loop" /\ LoopCondition(s) /\ pc'[s] # "loop" /\ ~ Emits(s))
            => pc'[s] = "eos"]_vars
  /\ [][\A s \in Sessions :
          pc[s] = "eos" =>
            /\ pc'[s] = "eos"
            /\ emitted'[s] = emitted[s]
            /\ works' = works
            /\ answered' = answered]_vars

\* A request with budget left has ended on None after one token and one
\* broadcast.
C18_Witness ==
  /\ pc[1] = "eos"
  /\ Len(emitted[1]) = 1
  /\ max_tokens[1] = MaxTokens
  /\ works # {}

\* The origin of the i-th token of a stream.
Origin(stream, i) == stream[i].origin

\* C19: in every iteration the stream carries the local token, then the
\* accepted draft tokens in the order verify_draft returned them, then the
\* correction token if there is one, before the next local token; each
\* token is appended to `generated` as it is emitted.
C19_EmissionOrder ==
  /\ [](\A s \in Sessions : \A i \in DOMAIN emitted[s] :
          /\ i = 1 => Origin(emitted[s], i) = "local"
          /\ Origin(emitted[s], i) \in {"draft", "correction"}
               => (i > 1 /\ Origin(emitted[s], i - 1) \in {"local", "draft"})
          /\ (i > 1 /\ Origin(emitted[s], i - 1) = "correction")
               => Origin(emitted[s], i) = "local")
  /\ [][\A s \in Sessions :
          Emits(s) =>
            LET last == emitted'[s][Len(emitted'[s])]
            IN  /\ emitted'[s] = Append(emitted[s], last)
                /\ generated'[s] = Append(generated[s], last.tok)
                /\ pc[s] = "loop" => last.origin = "local"
                /\ (pc[s] = "emit" /\ accepted[s] # <<>>)
                     => /\ last.origin = "draft"
                        /\ last.tok = Head(accepted[s])
                        /\ accepted'[s] = Tail(accepted[s])
                /\ (pc[s] = "emit" /\ accepted[s] = <<>>)
                     => /\ last.origin = "correction"
                        /\ last.tok = correction[s]
                        /\ pc'[s] = "loop"]_vars

\* A stream of a local token, an accepted draft token and the correction.
C19_Witness ==
  /\ Len(emitted[1]) = 3
  /\ Origin(emitted[1], 1) = "local"
  /\ Origin(emitted[1], 2) = "draft"
  /\ Origin(emitted[1], 3) = "correction"
  /\ generated[1] = [i \in 1..3 |-> emitted[1][i].tok]

\* emitted_tokens is a positive multiple of every_n_tokens floored to 1.
CadenceHit(e, n) == e > 0 /\ e % (IF n < 1 THEN 1 ELSE n) = 0

\* C20: maybe_checkpoint exports a snapshot and replaces the retained
\* checkpoint exactly when emitted_tokens is a positive multiple of
\* every_n_tokens (floored to 1); for any other count the retained
\* checkpoint stays as it is.  In the loop the checkpoint also stays when
\* the export raises.
C20_CheckpointOnCadence ==
  /\ [](\A s \in Sessions : \A n \in (-1)..3, e \in 0..CkptBudget :
          maybe_checkpoint(latest[s], n, max_generated_tail, generated[s], e,
                           export_kv_snapshot(cache), TRUE)
            = IF CadenceHit(e, n)
                THEN << [payload |-> export_kv_snapshot(cache),
                         token_count |-> e,
                         generated_tail |-> generated[s]] >>
                ELSE latest[s])
  /\ [][\A s \in Sessions :
          Emits(s) =>
            IF CadenceHit(tokens_emitted'[s], every_n_tokens)
              THEN latest'[s] \in
                     { latest[s],
                       << [payload |-> export_kv_snapshot(cache'),
                           token_count |-> tokens_emitted'[s],
                           generated_tail |-> generated'[s]] >> }
              ELSE latest'[s] = latest[s]]_vars

\* With a cadence of 2 the third token has left the checkpoint of the second
\* in place.
C20_Witness ==
  /\ every_n_tokens = 2
  /\ tokens_emitted[1] = 3
  /\ pc[1] = "throttle"
  /\ latest[1] # <<>>
  /\ latest[1][1].token_count = 2

\* The checkpoint a capture with these arguments retains.
Captured(gen, e, kv) ==
  [payload |-> export_kv_snapshot(kv), token_count |-> e,
   generated_tail |->
     IF Len(gen) <= Max2(16, max_generated_tail) THEN gen
     ELSE [i \in 1..Max2(16, max_generated_tail) |->
             gen[Len(gen) - Max2(16, max_generated_tail) + i]]]

\* C21: a KvCheckpointManager retains at most one checkpoint, whose tail has
\* at most max(16, max_generated_tail) tokens; a call of maybe_checkpoint
\* leaves either the checkpoint retained before or the one it has just
\* captured; restore_latest hands exactly the retained payload to
\* import_kv_snapshot and keeps the checkpoint, and with nothing retained it
\* calls no import and changes nothing.
C21_OneLatestCheckpoint ==
  [][ /\ Len(latest'[1]) <= 1
      /\ latest'[1] # <<>> =>
            Len(latest'[1][1].generated_tail) <= Max2(16, max_generated_tail)
      /\ mgr_call'.op = "maybe_checkpoint" =>
            latest'[1] \in
              { latest[1],
                << Captured(mgr_call'.generated, mgr_call'.emitted_tokens,
                            cache) >> }
      /\ (mgr_call'.op = "maybe_checkpoint"
            /\ CadenceHit(mgr_call'.emitted_tokens, every_n_tokens)
            /\ mgr_call'.export_ok) =>
            latest'[1] = << Captured(mgr_call'.generated,
                                     mgr_call'.emitted_tokens, cache) >>
      /\ mgr_call'.op = "restore_latest" =>
            /\ latest'[1] = latest[1]
            /\ IF latest[1] = <<>>
                 THEN mgr_call'.imported = <<>> /\ cache' = cache
                 ELSE /\ mgr_call'.imported = << latest[1][1].payload >>
                      /\ cache' \in {cache, latest[1][1].payload.body} ]_vars

\* A checkpoint whose tail was cut to sixteen tokens has been restored into
\* a runtime that had moved on, and is still retained.
C21_Witness ==
  /\ max_generated_tail = 0
  /\ mgr_call.op = "restore_latest"
  /\ ~ mgr_call.raised
  /\ latest[1] # <<>>
  /\ latest[1][1].generated_tail
       = SubSeq(TailStream(CHECKPOINT_TAIL_FLOOR + 1), 2,
                CHECKPOINT_TAIL_FLOOR + 1)
  /\ latest[1][1].payload.body # <<>>
  /\ mgr_call.imported = << latest[1][1].payload >>
  /\ cache = latest[1][1].payload.body

\* C22: import_kv_snapshot raises, without passing the buffer to the native
\* import and without touching the cache, for every buffer whose magic is
\* not SNAPSHOT_MAGIC, whose version is not SNAPSHOT_VERSION, or whose length
\* is not the header size plus the payload length the header declares; any
\* other buffer reaches the native import.
C22_BadSnapshotRejected ==
  [][ LET b == import_call'.buf
          bad == \/ b.magic # SNAPSHOT_MAGIC
                 \/ b.version # SNAPSHOT_VERSION
                 \/ Len(b.body) + SNAPSHOT_HEADER_SIZE
                      # b.payload_len + SNAPSHOT_HEADER_SIZE
      IN  IF bad
            THEN /\ import_call'.raised
                 /\ ~ import_call'.native
                 /\ cache' = cache
            ELSE import_call'.native ]_vars

\* A buffer with the right magic and version and a payload shorter than
\* declared has been rejected while the cache held an earlier import.
C22_Witness ==
  /\ import_call.buf.magic = SNAPSHOT_MAGIC
  /\ import_call.buf.version = SNAPSHOT_VERSION
  /\ Len(import_call.buf.body) < import_call.buf.payload_len
  /\ import_call.raised
  /\ ~ import_call.native
  /\ cache # <<>>

\* The checks for `key` allowed so far in the window of time t.
AllowedInWindow(calls, key, t) ==
  Cardinality({ i \in 1..Len(calls) :
                  /\ calls[i].key = key
                  /\ calls[i].at \div 60 = t \div 60
                  /\ calls[i].allowed })

\* C23: RateLimiter.check allows a request exactly when fewer than
\* limit_per_minute (floored to 1) requests of the same key were allowed in
\* the current 60-second window, so never more than that number in one
\* window; a refused check returns (False, 0) and leaves the buckets as they
\* were; the first check of a later window is allowed again and returns
\* limit_per_minute - 1.
C23_FixedWindowLimit ==
  [][ Len(rate_log') = Len(rate_log) + 1 =>
        LET call == rate_log'[Len(rate_log')]
            limit == IF limit_per_minute < 1 THEN 1 ELSE limit_per_minute
            before == AllowedInWindow(rate_log, call.key, call.at)
        IN  /\ call.allowed <=> before < limit
            /\ AllowedInWindow(rate_log', call.key, call.at) <= limit
            /\ call.allowed =>
                  /\ call.remaining = limit - before - 1
                  /\ buckets'[call.key] = <<before + 1, call.at \div 60>>
            /\ ~ call.allowed =>
                  /\ call.remaining = 0
                  /\ buckets' = buckets ]_vars

\* With a limit of 2, a key was allowed twice and refused in one window and
\* allowed again in the next.
C23_Witness ==
  /\ limit_per_minute = 2
  /\ Len(rate_log) = 4
  /\ \A i \in 1..4 : rate_log[i].key = "10.0.0.1"
  /\ rate_log[1].allowed /\ rate_log[2].allowed /\ ~ rate_log[3].allowed
  /\ rate_log[3].at \div 60 = rate_log[1].at \div 60
  /\ rate_log[4].at \div 60 > rate_log[3].at \div 60
  /\ rate_log[4].allowed /\ rate_log[4].remaining = 1

\* The engine's next token once the first n tokens of the draft have been
\* evaluated on top of the cache kv (None: the engine has no logits), and
\* the length of the longest prefix of the draft that the engine repeats.
EngineToken(kv, draft, n) ==
  LET ids == [i \in 1..Len(kv) |-> kv[i].tok]
               \o [i \in 1..n |-> TokenId(draft[i])]
  IN  IF ids = <<>> THEN None
      ELSE shard_token_to_piece((Len(ids) + SumIds([i \in 1..Len(ids) |->
                                   [tok |-> ids[i]]])) % Cardinality(Pieces))
MatchLen(kv, draft) ==
  CHOOSE k \in 0..Len(draft) :
    /\ \A i \in 1..k : draft[i] = EngineToken(kv, draft, i - 1)
    /\ k < Len(draft) => draft[k + 1] # EngineToken(kv, draft, k)
VerifiedAs(kv, draft, acc, corr) ==
  LET k == MatchLen(kv, draft)
  IN  /\ acc = SubSeq(draft, 1, k)
      /\ corr = IF k = Len(draft) THEN None ELSE EngineToken(kv, draft, k)

\* C24: on the shard ABI verify_prefix returns as `accepted` the longest
\* prefix of the draft in which every token equals the engine's next token
\* once the tokens before it have been evaluated, and as correction the
\* engine's token at the first mismatch, or None when the whole draft was
\* accepted or the draft is empty: for every draft at every cache state the
\* loop reaches, and for every draft the loop hands to verify_draft.
C24_LongestMatchingPrefix ==
  /\ [](\A s \in Sessions : \A draft \in Drafts :
          LET v == verify_prefix(cache, generated[s], draft, s)
          IN  VerifiedAs(cache, draft, v.accepted, v.correction))
  /\ [][\A s \in Sessions :
          Admitted(s) =>
            VerifiedAs(cache, result'[s][1].draft_tokens,
                       accepted'[s], correction'[s])]_vars

\* A draft of two tokens has been verified: the first was accepted and the
\* second replaced by the engine's token.
C24_Witness ==
  /\ pc[1] = "emit"
  /\ Len(result[1][1].draft_tokens) = 2
  /\ accepted[1] = SubSeq(result[1][1].draft_tokens, 1, 1)
  /\ correction[1] # None
  /\ correction[1] # result[1][1].draft_tokens[2]
  /\ tokens_emitted[1] = 1

\* The ban entry of peer p is there and has not run out at time t.
BanActive(bans, p, t) ==
  p \in DOMAIN bans /\ t - bans[p].banned_at < bans[p].ban_duration_hours

CacheIds(kv) == [i \in 1..Len(kv) |-> kv[i].tok]

\* C26: once a session's eval cursor is set, at every suspension point of
\* the loop the engine cache holds the prompt's tokens followed by the
\* tokens of the first N entries of `generated`, each once, N being the
\* cursor _session_eval_pos[request_id + "_idx"].
C26_CacheFollowsCursor ==
  \A s \in Sessions :
    (pc[s] \notin {"idle", "done", "eos"}
       /\ IdxKey(request_id[s]) \in DOMAIN session_eval_pos) =>
      LET N == session_eval_pos[IdxKey(request_id[s])]
      IN  /\ N <= Len(generated[s])
          /\ CacheIds(cache) =
               encode_text(prompt[s])
                 \o [i \in 1..N |-> TokenId(generated[s][i])]

\* C27: when verify_prefix returns with k accepted tokens, the cache is k
\* positions longer than before the call, and one more when a correction
\* was returned.
C27_PositionAfterVerify ==
  [][\A s \in Sessions :
       Admitted(s) =>
         Len(cache') = Len(cache) + Len(accepted'[s])
                         + (IF correction'[s] # None THEN 1 ELSE 0)]_vars

\* C28: tokens from accepted drafts and corrections count for the cadence:
\* when such a token has brought tokens_emitted to a multiple of
\* every_n_tokens, a snapshot with that token count is retained by the time
\* the loop is back at its head for the next local step.
C28_DraftTokensCountForCadence ==
  \A s \in Sessions :
    (/\ kv_checkpoint_manager
     /\ pc[s] = "loop"
     /\ tokens_emitted[s] > 0
     /\ tokens_emitted[s] % Max2(1, every_n_tokens) = 0
     /\ LastOrigin(emitted[s]) # "local") =>
      /\ latest[s] # <<>>
      /\ latest[s][1].token_count = tokens_emitted[s]

\* C29: when restore_latest raises inside the loop, `generated` stays as it
\* was and the snapshot that failed is no longer retained, so that it is not
\* restored again during the request.
C29_FailedRestoreDiscards ==
  [][\A s \in Sessions :
       (pc[s] = "poll" /\ log'[s].event = "restore_skipped") =>
         /\ generated'[s] = generated[s]
         /\ latest'[s] = <<>>]_vars

\* The Golden Ticket attempts recorded for the peers in S.
RECURSIVE RecordedAttempts(_)
RecordedAttempts(S) ==
  IF S = {} THEN 0
  ELSE LET p == CHOOSE q \in S : TRUE
       IN  (IF p \in DOMAIN reputation
              THEN reputation[p].golden_attempts ELSE 0)
             + RecordedAttempts(S \ {p})

\* C30: of the verify_response calls made from several threads for one
\* ticket in flight, at most one evaluates the ticket: one attempt is
\* recorded in the reputation table and every other call returns None.
C30_OneEvaluationPerTicket ==
  /\ RecordedAttempts(Peers) <= 1
  /\ Cardinality({ th \in Threads : threads[th].ret \in {"True", "False"} })
       <= 1

\* Every verify_response call made from a thread has returned or was never
\* made.
AllReturned == \A th \in Threads : threads[th].pc \in {"idle", "returned"}

\* C31: when several threads update reputations concurrently, then once
\* all calls have returned the persisted reputation store equals the
\* in-memory reputation table: an older snapshot never overwrites a newer
\* one.
C31_StoreEqualsTable == AllReturned => reputation_db = reputation

\* The step is a call of a saving method of the ledger, for peer p.
LedgerCalled(op, p) ==
  /\ ledger_call'.n # ledger_call.n
  /\ ledger_call'.op = op
  /\ ledger_call'.peer_id = p

\* What the call has done to the tables in memory.
MutationKept(op, p) ==
  CASE op = "_update_reputation" -> Updated(p)
    [] op = "_ban_scout" ->
         p \in DOMAIN banned' /\ banned'[p].banned_at = now
    [] op = "unban_scout" -> p \in DOMAIN banned /\ p \notin DOMAIN banned'
    [] op = "reset_reputation" ->
         p \in DOMAIN reputation /\ reputation'[p] = NewReputation
    [] op = "is_scout_banned" ->
         p \in DOMAIN banned /\ p \notin DOMAIN banned'

\* C32: if writing the reputation or ban store fails, the mutating
\* operation (_update_reputation, _ban_scout, unban_scout,
\* reset_reputation, the expired-ban purge of is_scout_banned) still
\* returns normally and the in-memory tables keep the mutation.
C32_WriteFailureSwallowed ==
  [][\A p \in Peers :
       \A op \in {"_update_reputation", "_ban_scout", "unban_scout",
                   "reset_reputation", "is_scout_banned"} :
         (LedgerCalled(op, p) /\ ledger_call'.failed) =>
           /\ ~ ledger_call'.raised
           /\ MutationKept(op, p)]_vars

\* A failed write has left the stored reputation table behind the one in
\* memory, which holds a ban made by the same call.
C32_Witness ==
  /\ ledger_call.op = "_update_reputation"
  /\ ledger_call.failed
  /\ ~ ledger_call.raised
  /\ ledger_call.peer_id \in DOMAIN banned
  /\ reputation_db # reputation

\* Every peer other than p has the entry in table t2 that it has in t1.
OthersKept(t1, t2, p) ==
  \A q \in Peers \ {p} :
    /\ q \in DOMAIN t2 <=> q \in DOMAIN t1
    /\ q \in DOMAIN t1 => t2[q] = t1[q]

\* C39: unban_scout removes only that peer's ban entry and leaves every
\* reputation counter unchanged; reset_reputation zeroes only that peer's
\* counters and leaves the ban table unchanged; neither touches other peers
\* or in-flight tickets.
C39_AdminFrame ==
  [][\A p \in Peers :
       /\ LedgerCalled("unban_scout", p) =>
            /\ p \notin DOMAIN banned'
            /\ OthersKept(banned, banned', p)
            /\ reputation' = reputation
            /\ active_tickets' = active_tickets
       /\ LedgerCalled("reset_reputation", p) =>
            /\ p \in DOMAIN reputation' <=> p \in DOMAIN reputation
            /\ p \in DOMAIN reputation => reputation'[p] = NewReputation
            /\ OthersKept(reputation, reputation', p)
            /\ banned' = banned
            /\ active_tickets' = active_tickets]_vars

\* reset_reputation has zeroed the counters of a peer while a ban is in
\* force and a ticket is in flight.
C39_Witness ==
  /\ ledger_call.op = "reset_reputation"
  /\ ledger_call.ret
  /\ reputation[ledger_call.peer_id] = NewReputation
  /\ banned # EmptyDict
  /\ active_tickets # EmptyDict

\* The step counts a Golden Ticket response of p that was judged correct.
CorrectVerdict(p) ==
  /\ Updated(p)
  /\ reputation'[p].golden_correct =
       (IF p \in DOMAIN reputation THEN reputation[p].golden_correct ELSE 0) + 1

\* C37 as claimed: a Golden Ticket response judged correct never causes the
\* responding peer to become banned: a peer that was not banned before a
\* correct verdict is not banned after it.
C37_CorrectNeverBans ==
  [][\A p \in Peers :
       (CorrectVerdict(p) /\ ~ is_scout_banned(banned, p, now)) =>
         ~ is_scout_banned(banned', p, now')]_vars

\* C37, amended: a correct verdict for a peer that is not banned leaves it
\* with a ban entry exactly when, the correct answer counted, the peer has
\* at least 3 attempts and an accuracy below 0.70; a peer all of whose
\* answers were correct is never banned by it.
C37_CorrectBansOnlyWhenDue ==
  [][\A p \in Peers :
       (CorrectVerdict(p) /\ ~ is_scout_banned(banned, p, now)) =>
         /\ p \in DOMAIN banned' <=> BanDue(reputation'[p])
         /\ reputation'[p].golden_correct = reputation'[p].golden_attempts
              => p \notin DOMAIN banned']_vars

\* The response just verified was correct and its scout is banned.
C37_Witness ==
  /\ log[1].event = "ticket_verified"
  /\ log[1].scout \in DOMAIN banned
  /\ reputation[log[1].scout].golden_correct > 0

\* C36: two generation sessions that are alive at the same time never
\* share a request_id, and so never a Golden Ticket entry or an eval-cursor
\* entry, both of which are kept under the request_id.
C36_UniqueRequestIds ==
  \A s, t \in Alive : s # t => request_id[s] # request_id[t]

\* C33: any two consecutive broadcast_work calls of one request are at
\* least 50 ms apart on the loop's clock, whether the earlier call
\* succeeded or failed.
C33_BroadcastsApart ==
  \A s \in Sessions :
    \A i \in 1..(Len(broadcasts[s]) - 1) :
      broadcasts[s][i + 1].at - broadcasts[s][i].at >= 50

\* A second call has followed one that failed.
C33_Witness ==
  /\ Len(broadcasts[1]) >= 2
  /\ broadcasts[1][1].ret = "False"

\* C34: every registered Golden Ticket is eventually removed from the
\* in-flight map, also when no scout ever responds to it.
C34_TicketEventuallyRemoved ==
  \A rid \in 1..2 :
    (rid \in DOMAIN active_tickets) ~> (rid \notin DOMAIN active_tickets)

\* C35: if the engine raises during a local step, generation ends with
\* that error: no token is emitted after the failure, and the tokens
\* emitted before it are still delivered to the client, on the streaming
\* path and on the non-streaming path.
C35_FailureKeepsTokens ==
  [][\A s \in Sessions :
       /\ pc[s] = "raised" => (pc'[s] = "raised" /\ emitted'[s] = emitted[s])
       /\ reply'[s].error =>
            reply'[s].tokens = StreamTokens(emitted'[s])]_vars

\* C38: a draft from which no token is emitted (dropped, rejected at its
\* first token, or failed with an engine error during verification) leaves
\* the engine KV cache exactly as it was before the draft was popped.
C38_UnemittedDraftKeepsCache ==
  [][\A s \in Sessions :
       (/\ pc[s] = "poll"
        /\ log'[s].scout # ""
        /\ pc'[s] = "loop" \/ (pc'[s] = "emit" /\ accepted'[s] = <<>>))
         => cache' = cache]_vars

====
